---- MODULE Spec2Model ----
(***************************************************************************)
(* Model of the sound-recorder music library tools.                        *)
(*                                                                         *)
(*   - naming standard  (utils/namingStandard.ts, hooks/useFileNaming.ts)  *)
(*   - duplicate cleaner (utils/metadata.ts, utils/duplicates.ts,          *)
(*                        hooks/useMusicLibrary.ts of the organizer)       *)
(*   - batch operations panel (components/BatchOperations.tsx, api/client) *)
(*                                                                         *)
(* A JavaScript string is a sequence of one-character strings, so that     *)
(* case mapping, splitting, trimming and regular expressions are computed  *)
(* character by character, as the code computes them.                      *)
(***************************************************************************)
EXTENDS Integers, Sequences, FiniteSets, TLC

VARIABLES
    lastIndex,        \* INVALID_CHARS.lastIndex: the /g regex keeps it between calls
    analysis,         \* what the last analyzeFile call was given and returned
    fs,               \* the user's directory tree: path -> file content, or NoFile
    rootDirHandle,    \* useState rootDirHandle (TRUE: a directory is selected)
    audioFiles,       \* useState audioFiles
    duplicateGroups,  \* useState duplicateGroups
    scanProgress,     \* useState scanProgress
    moveOperations,   \* useState moveOperations
    scanPending,      \* a startScan call awaits scanDirectory
    nextUuid,         \* the values crypto.randomUUID() has not handed out yet
    lastMove,         \* the last moveDuplicatesToTrash call: what its closure held,
                      \* the file-system calls it made, what it returned
    serverFiles,      \* backend: path -> [fileName, metadata]
    backups,          \* backend: the backup history, backupId -> snapshot
    batch,            \* the batch request in flight, or its last outcome
    panel,            \* BatchOperations component state (loading, results)
    restore,          \* the last restoreBackup calls: id, files before and after
    hook,             \* which useMusicLibrary the page is built with
    musicFiles,       \* useState files of useMusicLibrary (the naming page)
    update,           \* the updateFileMetadata call in flight, or the last one
    normalizing,      \* a call of normalizeString / createNormalizedKey: input, result
    detecting,        \* a call of findDuplicates: input, result
    libDir,           \* backend: the files of the directory, in listing order
    libFiles,         \* backend hook: useState files
    libScanning,      \* backend hook: useState scanning
    libProgress,      \* backend hook: useState scanProgress {current, total}
    libError,         \* backend hook: useState error, set or not
    libCache,         \* localStorage: the cached file list and scan timestamp
    libCalls,         \* backend hook: the async calls in flight, with their locals
    recorder          \* useAudioRecorder: its state, refs, streams and pending events

namingVars  == <<lastIndex, analysis>>
libraryVars == <<fs, rootDirHandle, audioFiles, duplicateGroups, scanProgress,
                 moveOperations, scanPending, nextUuid, lastMove>>
batchVars   == <<serverFiles, backups, batch, panel, restore>>
editorVars  == <<hook, musicFiles, update>>
utilVars    == <<normalizing, detecting>>
cacheVars   == <<libDir, libFiles, libScanning, libProgress, libError, libCache, libCalls>>
vars        == <<lastIndex, analysis, fs, rootDirHandle, audioFiles, duplicateGroups,
                 scanProgress, moveOperations, scanPending, nextUuid, lastMove,
                 serverFiles, backups, batch, panel, restore, hook, musicFiles, update,
                 normalizing, detecting,
                 libDir, libFiles, libScanning, libProgress, libError, libCache, libCalls,
                 recorder>>

----------------------------------------------------------------------------
(* Bounds of the model *)

\* longest artist tag given to analyzeFile
MaxArtistLen == 1
\* longest title tag given to analyzeFile
MaxTitleLen == 2
\* longest file name stem (the part before ".mp3") given to analyzeFile
MaxStemLen == 1
\* most files in the user's directory tree when the organizer opens it
MaxFiles == 2
\* startScan is not started once this many scans have drawn their identifiers
MaxScans == 2
\* batch requests are not started once the backup history holds this many snapshots
MaxBackups == 1
\* longest string given to normalizeString
MaxNormalizeLen == 2
\* most files given to findDuplicates in one call
MaxDetectFiles == 4
\* most files in the directory the backend scans
MaxDirFiles == 3
\* BATCH_SIZE of scanLibrary, scaled down from 200
BatchSize == 2
\* most async calls of the backend hook in flight at once
MaxCalls == 2
\* longest artist and title a canonical name is made of
MaxTagLen == 2
\* most microphone streams opened by the recorder
MaxStreams == 2
\* most recordings made by the recorder
MaxRecordings == 3

----------------------------------------------------------------------------
(* Strings *)

\* JavaScript null / undefined: a value no string equals
NULL == << "<null>" >>

\* JavaScript truthiness of a string-or-null value: null, undefined and ""
\* are falsy
Truthy(s) == s # NULL /\ s # << >>

Range(f) == { f[i] : i \in DOMAIN f }

LowerLetters == <<"a","b","c","d","e","f","g","h","i","j","k","l","m",
                  "n","o","p","q","r","s","t","u","v","w","x","y","z">>
UpperLetters == <<"A","B","C","D","E","F","G","H","I","J","K","L","M",
                  "N","O","P","Q","R","S","T","U","V","W","X","Y","Z">>
Digits == {"0","1","2","3","4","5","6","7","8","9"}

\* the precomposed letters U+00E9 and U+00C9 (e and E with acute), one character each
LowerEAcute == "U+00E9"
UpperEAcute == "U+00C9"

LowerLetterSet == Range(LowerLetters)
UpperLetterSet == Range(UpperLetters)

IsLower(c) == c \in LowerLetterSet
IsUpper(c) == c \in UpperLetterSet
IsLetter(c) == IsLower(c) \/ IsUpper(c)

\* String.prototype.toLowerCase, one character
LowerOf == [c \in UpperLetterSet |->
               LowerLetters[CHOOSE i \in DOMAIN UpperLetters : UpperLetters[i] = c]]
UpperOf == [c \in LowerLetterSet |->
               UpperLetters[CHOOSE i \in DOMAIN LowerLetters : LowerLetters[i] = c]]

LowerChar(c) ==
    IF IsUpper(c)
    THEN LowerOf[c]
    ELSE IF c = UpperEAcute THEN LowerEAcute ELSE c

\* String.prototype.toUpperCase, one character
UpperChar(c) ==
    IF IsLower(c)
    THEN UpperOf[c]
    ELSE IF c = LowerEAcute THEN UpperEAcute ELSE c

toLowerCase(s) == [i \in DOMAIN s |-> LowerChar(s[i])]
toUpperCase(s) == [i \in DOMAIN s |-> UpperChar(s[i])]

\* the characters the regex class \s and String.prototype.trim treat as white space
WhiteSpace == {" ", "\t"}

RECURSIVE TrimStart(_)
TrimStart(s) ==
    IF s # << >> /\ Head(s) \in WhiteSpace THEN TrimStart(Tail(s)) ELSE s

RECURSIVE TrimEnd(_)
TrimEnd(s) ==
    IF s # << >> /\ s[Len(s)] \in WhiteSpace
    THEN TrimEnd(SubSeq(s, 1, Len(s) - 1))
    ELSE s

\* String.prototype.trim
trim(s) == TrimEnd(TrimStart(s))

\* s.startsWith(p) at 1-based position i
StartsWithAt(s, p, i) ==
    /\ i + Len(p) - 1 <= Len(s)
    /\ \A k \in 1..Len(p) : s[i + k - 1] = p[k]

\* String.prototype.split(sep) for a non-empty separator
RECURSIVE SplitFrom(_, _, _, _)
SplitFrom(s, sep, i, word) ==
    IF i > Len(s) THEN << word >>
    ELSE IF StartsWithAt(s, sep, i)
         THEN << word >> \o SplitFrom(s, sep, i + Len(sep), << >>)
         ELSE SplitFrom(s, sep, i + 1, Append(word, s[i]))

split(s, sep) == SplitFrom(s, sep, 1, << >>)

\* Array.prototype.join(sep)
RECURSIVE join(_, _)
join(words, sep) ==
    IF words = << >> THEN << >>
    ELSE IF Len(words) = 1 THEN words[1]
    ELSE words[1] \o sep \o join(Tail(words), sep)

\* String.prototype.includes
includes(s, p) == \E i \in 1..(Len(s) + 1) : StartsWithAt(s, p, i)

\* all strings over an alphabet, up to a length
RECURSIVE StringsUpTo(_, _)
StringsUpTo(alphabet, n) ==
    IF n = 0 THEN { << >> }
    ELSE LET shorter == StringsUpTo(alphabet, n - 1)
         IN  shorter \cup { Append(s, c) : s \in shorter, c \in alphabet }

----------------------------------------------------------------------------
(* Naming standard: utils/namingStandard.ts *)

\* INVALID_CHARS = /[/\\?%*:|"<>]/g : the character class
InvalidChars == {"/", "\\", "?", "%", "*", ":", "|", "\"", "<", ">"}

Min(S) == CHOOSE x \in S : \A y \in S : x <= y

\* RegExp.prototype.test of the global regex INVALID_CHARS: the search starts at
\* lastIndex (0-based), a hit leaves lastIndex after the hit, a miss resets it
RegExpTest(str, li) ==
    LET hits == { i \in (li + 1)..Len(str) : str[i] \in InvalidChars }
    IN  IF li > Len(str) \/ hits = {}
        THEN [found |-> FALSE, lastIndex |-> 0]
        ELSE [found |-> TRUE, lastIndex |-> Min(hits)]

\* INVALID_CHARS.test(fileName)
TestInvalidChars(fileName, li) == RegExpTest(fileName, li)

\* toTitleCase: lower-case, split at " ", upper-case each word's first character
TitleWord(word) ==
    IF word = << >> THEN << >>
    ELSE << UpperChar(word[1]) >> \o Tail(word)

toTitleCase(str) ==
    LET words == split(toLowerCase(str), << " " >>)
    IN  join([i \in DOMAIN words |-> TitleWord(words[i])], << " " >>)

\* name.replace(INVALID_CHARS, '')
RemoveInvalidChars(name) == SelectSeq(name, LAMBDA c : c \notin InvalidChars)

\* name.replace(/\s+/g, ' ')
RECURSIVE CollapseWhiteSpace(_)
CollapseWhiteSpace(name) ==
    IF name = << >> THEN << >>
    ELSE IF Head(name) \in WhiteSpace
         THEN << " " >> \o CollapseWhiteSpace(TrimStart(name))
         ELSE << Head(name) >> \o CollapseWhiteSpace(Tail(name))

sanitizeFileName(name) == trim(CollapseWhiteSpace(RemoveInvalidChars(name)))

Separator == << " ", "-", " " >>
DotMp3 == << ".", "m", "p", "3" >>

\* generateStandardName with its two locals; name = NULL is the null return
StandardName(metadata) ==
    IF ~Truthy(metadata.artist) \/ ~Truthy(metadata.title)
    THEN [artist |-> NULL, title |-> NULL, name |-> NULL]
    ELSE LET artist == sanitizeFileName(toTitleCase(metadata.artist))
             title  == sanitizeFileName(toTitleCase(metadata.title))
         IN  [artist |-> artist, title |-> title,
              name |-> artist \o Separator \o title \o DotMp3]

generateStandardName(metadata) == StandardName(metadata).name

\* the first position >= i that holds no white space (Len(s) + 1 if none)
SkipWhiteSpace(s, i) ==
    Min({ j \in i..(Len(s) + 1) : j = Len(s) + 1 \/ s[j] \notin WhiteSpace })

\* fileName.match(STANDARD_PATTERN), STANDARD_PATTERN = /^(.+?)\s*-\s*(.+?)\.mp3$/i :
\* group 1 is the shortest non-empty prefix followed by white space and "-";
\* \s* after the "-" is greedy but leaves group 2 at least one character
MatchStandardPattern(fileName) ==
    LET n    == Len(fileName)
        dot  == n - 3
        ends == n >= 4 /\ toLowerCase(SubSeq(fileName, dot, n)) = DotMp3
        cuts == { i \in 2..n : LET j == SkipWhiteSpace(fileName, i)
                               IN  j <= dot - 2 /\ fileName[j] = "-" }
    IN  IF ~ends \/ cuts = {}
        THEN [matched |-> FALSE, g1 |-> << >>, g2 |-> << >>]
        ELSE LET i == Min(cuts)
                 j == SkipWhiteSpace(fileName, i)
                 k == SkipWhiteSpace(fileName, j + 1)
             IN  [matched |-> TRUE,
                  g1 |-> SubSeq(fileName, 1, i - 1),
                  g2 |-> IF k < dot THEN SubSeq(fileName, k, dot - 1)
                                    ELSE SubSeq(fileName, dot - 1, dot - 1)]

extractArtistAndTitle(fileName) ==
    LET match == MatchStandardPattern(fileName)
    IN  IF match.matched
        THEN [artist |-> trim(match.g1), title |-> trim(match.g2)]
        ELSE [artist |-> NULL, title |-> NULL]

\* String.prototype.replace with a global regex leaves its lastIndex at 0:
\* INVALID_CHARS.lastIndex after generateStandardName(metadata)
LastIndexAfterStandardName(metadata, li) ==
    IF generateStandardName(metadata) = NULL THEN li ELSE 0

\* the comparison replaced by a test of the shape "<artist> - <title>.mp3"
NoStandardIssueByPattern(fileName, metadata) ==
    IF Truthy(metadata.artist) /\ Truthy(metadata.title)
    THEN IF MatchStandardPattern(fileName).matched THEN << >> ELSE << "no_standard" >>
    ELSE << >>

\* analyzeFileName: the issue types in the order they are pushed, and
\* INVALID_CHARS.lastIndex when it returns
NoStandardIssue(fileName, metadata) ==
    IF Truthy(metadata.artist) /\ Truthy(metadata.title)
    THEN LET expectedName == generateStandardName(metadata)
         IN  IF Truthy(expectedName) /\ fileName # expectedName
             THEN << "no_standard" >> ELSE << >>
    ELSE << >>

\* a version that returns at the first issue it finds
analyzeFileNameFirstOnly(fileName, metadata, li) ==
    LET test == TestInvalidChars(fileName, li)
    IN  [issues |->
            IF ~Truthy(metadata.artist) THEN << "no_artist" >>
            ELSE IF ~Truthy(metadata.title) THEN << "no_title" >>
            ELSE IF NoStandardIssue(fileName, metadata) # << >> THEN << "no_standard" >>
            ELSE IF test.found THEN << "invalid_chars" >>
            ELSE << >>,
         lastIndex |-> test.lastIndex]

analyzeFileName(fileName, metadata, li) ==
    LET li1  == IF Truthy(metadata.artist) /\ Truthy(metadata.title)
                THEN LastIndexAfterStandardName(metadata, li) ELSE li
        test == TestInvalidChars(fileName, li1)
    IN  [issues |->
            (IF ~Truthy(metadata.artist) THEN << "no_artist" >> ELSE << >>)
         \o (IF ~Truthy(metadata.title) THEN << "no_title" >> ELSE << >>)
         \o NoStandardIssue(fileName, metadata)
         \o (IF test.found THEN << "invalid_chars" >> ELSE << >>)
         \o (IF ~Truthy(metadata.artist) /\ ~Truthy(metadata.title)
                /\ ~Truthy(metadata.album)
             THEN << "missing_metadata" >> ELSE << >>),
         lastIndex |-> test.lastIndex]

\* getSuggestedName: the suggestion (NULL for undefined) and
\* INVALID_CHARS.lastIndex when it returns
getSuggestedName(fileName, metadata, li) ==
    LET standardName == generateStandardName(metadata)
        extracted    == extractArtistAndTitle(fileName)
    IN  IF Truthy(standardName)
        THEN [name |-> standardName,
              lastIndex |-> LastIndexAfterStandardName(metadata, li)]
        ELSE IF Truthy(extracted.artist) /\ Truthy(extracted.title)
             THEN [name |-> generateStandardName(extracted),
                   lastIndex |-> LastIndexAfterStandardName(extracted, li)]
             ELSE [name |-> NULL, lastIndex |-> li]

(* Inputs of the naming calls *)
ArtistAlphabet == {"a", "?"}
TagAlphabet  == {"a", "B", " ", "?"}
StemAlphabet == {"a", "?"}
\* stems that have the shape "<left>-<right>" of STANDARD_PATTERN
PatternStems == { << "a", "-", "a" >>, << "?", "-", "a" >> }

Artists == StringsUpTo(ArtistAlphabet, MaxArtistLen) \cup {NULL}
Titles  == StringsUpTo(TagAlphabet, MaxTitleLen) \cup {NULL}
Albums  == {NULL, << "a" >>}

\* the file names a metadata record is analyzed with: any short stem, and the
\* record's own canonical name when it has one
FileNamesFor(metadata) ==
    { stem \o DotMp3 : stem \in StringsUpTo(StemAlphabet, MaxStemLen) \cup PatternStems }
        \cup (IF generateStandardName(metadata) = NULL THEN {}
              ELSE {generateStandardName(metadata)})

NoCall == [called |-> FALSE]

NamingInit ==
    /\ lastIndex = 0
    /\ analysis = NoCall

\* useFileNaming.analyzeFile, and the body of the scan loop of scanLibrary:
\* analyzeFileName, then getSuggestedName, on the same file
analyzeFile(fileName, metadata) ==
    /\ analysis = NoCall
    /\ LET analyzed  == analyzeFileName(fileName, metadata, lastIndex)
           suggested == getSuggestedName(fileName, metadata, analyzed.lastIndex)
       IN  /\ analysis' = [called |-> TRUE,
                           fileName |-> fileName,
                           metadata |-> metadata,
                           lastIndexBefore |-> lastIndex,
                           expected |-> StandardName(metadata),
                           issues |-> analyzed.issues,
                           suggestedName |-> suggested.name]
           /\ lastIndex' = suggested.lastIndex
    /\ UNCHANGED <<libraryVars, batchVars, editorVars, utilVars, cacheVars, recorder>>

\* the caller takes {issues, suggestedName}; the call's frame is gone, the
\* regex object of the module stays
analyzeFileReturn ==
    /\ analysis # NoCall
    /\ analysis' = NoCall
    /\ UNCHANGED <<lastIndex, libraryVars, batchVars, editorVars, utilVars, cacheVars, recorder>>

\* the tags a canonical name is made of
CanonicalTagAlphabet == {"a", "B", " ", "-", "?"}
CanonicalTags == StringsUpTo(CanonicalTagAlphabet, MaxTagLen)

\* a file that carries the canonical name of an artist and a title has lost
\* its tags and is analyzed
analyzeCanonicalFile(artist, title) ==
    LET fileName == generateStandardName([artist |-> artist, title |-> title, album |-> NULL])
    IN  /\ fileName # NULL
        /\ analyzeFile(fileName, [artist |-> NULL, title |-> NULL, album |-> NULL])

CanonicalNext ==
    \/ \E artist \in CanonicalTags, title \in CanonicalTags : analyzeCanonicalFile(artist, title)
    \/ analyzeFileReturn

NamingNext ==
    \/ \E artist \in Artists, title \in Titles, album \in Albums :
         LET metadata == [artist |-> artist, title |-> title, album |-> album]
         IN  \E fileName \in FileNamesFor(metadata) : analyzeFile(fileName, metadata)
    \/ analyzeFileReturn

----------------------------------------------------------------------------
(* Duplicate cleaner, metadata: utils/metadata.ts *)

\* the combining acute accent U+0301, one character
CombiningAcute == "U+0301"

\* String.prototype.normalize('NFD'), one character
DecomposeChar(c) ==
    IF c = LowerEAcute THEN << "e", CombiningAcute >>
    ELSE IF c = UpperEAcute THEN << "E", CombiningAcute >>
    ELSE << c >>

RECURSIVE normalizeNFD(_)
normalizeNFD(s) ==
    IF s = << >> THEN << >> ELSE DecomposeChar(Head(s)) \o normalizeNFD(Tail(s))

\* the class [\u0300-\u036f]
IsCombiningMark(c) == c = CombiningAcute

\* the class [a-z0-9]
IsLowerAlnum(c) == IsLower(c) \/ c \in Digits

\* the last replace without the g flag: only the first such character goes
RemoveFirstNonAlnum(s) ==
    LET drop == { i \in DOMAIN s : ~IsLowerAlnum(s[i]) }
    IN  IF drop = {} THEN s
        ELSE SubSeq(s, 1, Min(drop) - 1) \o SubSeq(s, Min(drop) + 1, Len(s))

normalizeStringFirstOnly(str) ==
    LET lowered    == toLowerCase(str)
        decomposed == normalizeNFD(lowered)
        unmarked   == SelectSeq(decomposed, LAMBDA c : ~IsCombiningMark(c))
    IN  trim(RemoveFirstNonAlnum(unmarked))

\* without toLowerCase
normalizeStringNoLowerCase(str) ==
    LET decomposed == normalizeNFD(str)
        unmarked   == SelectSeq(decomposed, LAMBDA c : ~IsCombiningMark(c))
    IN  trim(SelectSeq(unmarked, IsLowerAlnum))

normalizeString(str) ==
    LET lowered    == toLowerCase(str)
        decomposed == normalizeNFD(lowered)
        unmarked   == SelectSeq(decomposed, LAMBDA c : ~IsCombiningMark(c))
        alnum      == SelectSeq(unmarked, IsLowerAlnum)
    IN  trim(alnum)

\* the key without its separator
createNormalizedKeyNoSeparator(metadata) ==
    normalizeString(metadata.artist) \o normalizeString(metadata.title)

createNormalizedKey(metadata) ==
    normalizeString(metadata.artist) \o << ":", ":" >> \o normalizeString(metadata.title)

\* a call of normalizeString as JavaScript runs it: str.toLowerCase() throws a
\* TypeError when str is undefined or null
Threw == [threw |-> TRUE, value |-> NULL]

\* a version that rejects every falsy argument
normalizeStringResultRejectingEmpty(str) ==
    IF ~Truthy(str) THEN Threw ELSE [threw |-> FALSE, value |-> normalizeString(str)]

normalizeStringResult(str) ==
    IF str = NULL THEN Threw ELSE [threw |-> FALSE, value |-> normalizeString(str)]

createNormalizedKeyResult(metadata) ==
    LET artist == normalizeStringResult(metadata.artist)
        title  == normalizeStringResult(metadata.title)
    IN  IF artist.threw \/ title.threw THEN Threw
        ELSE [threw |-> FALSE, value |-> artist.value \o << ":", ":" >> \o title.value]

UnknownArtist == << "U","n","k","n","o","w","n"," ","A","r","t","i","s","t" >>

\* the alternatives of /\.(mp3|wav|m4a|flac|ogg|webm)$/i
StrippedExtensions ==
    { << ".","m","p","3" >>, << ".","w","a","v" >>, << ".","m","4","a" >>,
      << ".","f","l","a","c" >>, << ".","o","g","g" >>, << ".","w","e","b","m" >> }

EndsWith(s, suffix) ==
    /\ Len(s) >= Len(suffix)
    /\ SubSeq(s, Len(s) - Len(suffix) + 1, Len(s)) = suffix

\* filename.replace(/\.(mp3|wav|m4a|flac|ogg|webm)$/i, '')
RemoveExtension(filename) ==
    LET exts == { e \in StrippedExtensions : EndsWith(toLowerCase(filename), e) }
    IN  IF exts = {} THEN filename
        ELSE LET e == CHOOSE x \in exts : TRUE
             IN  SubSeq(filename, 1, Len(filename) - Len(e))

\* the en dash U+2013, one character
EnDash == "U+2013"

\* const separators = [' - ', ' \u2013 ', '\u2013', '-']
FilenameSeparators ==
    << << " ", "-", " " >>, << " ", EnDash, " " >>, << EnDash >>, << "-" >> >>

extractFromFilename(filename) ==
    LET nameWithoutExt == RemoveExtension(filename)
        found == { i \in DOMAIN FilenameSeparators :
                     includes(nameWithoutExt, FilenameSeparators[i]) }
    IN  IF found # {}
        THEN LET separator == FilenameSeparators[Min(found)]
                 parts == split(nameWithoutExt, separator)
             IN  [artist |-> trim(parts[1]),
                  title |-> trim(join(Tail(parts), separator))]
        ELSE [artist |-> UnknownArtist, title |-> nameWithoutExt]

\* AudioFileMetadata | null : the null
NullMetadata == [isNull |-> TRUE]

\* a file whose tags lack the artist or the title gets no metadata
extractMetadataTagsOnly(name, tags) ==
    IF ~Truthy(tags.artist) \/ ~Truthy(tags.title)
    THEN NullMetadata
    ELSE [artist |-> tags.artist, title |-> tags.title]

\* extractMetadata: tags are the ID3 tags of the file ("" for a tag it lacks)
extractMetadata(name, tags) ==
    IF ~Truthy(tags.artist) /\ ~Truthy(tags.title)
    THEN extractFromFilename(name)
    ELSE [artist |-> IF Truthy(tags.artist) THEN tags.artist ELSE UnknownArtist,
          title |-> IF Truthy(tags.title) THEN tags.title ELSE RemoveExtension(name)]

\* isSupportedAudioFile
AudioExtensions == StrippedExtensions \cup { << ".","a","a","c" >> }

LastIndexOfDot(filename) ==
    LET dots == { i \in DOMAIN filename : filename[i] = "." }
    IN  IF dots = {} THEN 1 ELSE CHOOSE i \in dots : \A j \in dots : j <= i

isSupportedAudioFile(filename) ==
    SubSeq(toLowerCase(filename), LastIndexOfDot(filename), Len(filename))
        \in AudioExtensions

----------------------------------------------------------------------------
(* Duplicate cleaner, detection: utils/duplicates.ts *)

\* !file.metadata
IsNullMetadata(metadata) == "isNull" \in DOMAIN metadata

\* a map that iterates from the key set last
RECURSIVE KeysNewestFirst(_, _)
KeysNewestFirst(files, seen) ==
    IF files = << >> THEN seen
    ELSE LET file == Head(files)
         IN  IF IsNullMetadata(file.metadata)
             THEN KeysNewestFirst(Tail(files), seen)
             ELSE LET normalizedKey == createNormalizedKey(file.metadata)
                  IN  IF normalizedKey \in Range(seen)
                      THEN KeysNewestFirst(Tail(files), seen)
                      ELSE KeysNewestFirst(Tail(files), << normalizedKey >> \o seen)

\* the keys of groupedByKey in insertion order: a Map iterates in the order
\* its keys were first set
RECURSIVE KeysInOrder(_, _)
KeysInOrder(files, seen) ==
    IF files = << >> THEN seen
    ELSE LET file == Head(files)
         IN  IF IsNullMetadata(file.metadata)
             THEN KeysInOrder(Tail(files), seen)
             ELSE LET normalizedKey == createNormalizedKey(file.metadata)
                  IN  IF normalizedKey \in Range(seen)
                      THEN KeysInOrder(Tail(files), seen)
                      ELSE KeysInOrder(Tail(files), Append(seen, normalizedKey))

\* groupedByKey.get(normalizedKey)
FilesOfKey(files, normalizedKey) ==
    SelectSeq(files, LAMBDA f : /\ ~IsNullMetadata(f.metadata)
                                /\ createNormalizedKey(f.metadata) = normalizedKey)

\* the test without its second condition: any two files of a key are a group
IsDuplicateGroupAnyTwo(groupFiles, rootFiles, organizedFiles) ==
    Len(groupFiles) > 1

\* the test that makes a key's files a duplicate group
IsDuplicateGroup(groupFiles, rootFiles, organizedFiles) ==
    /\ Len(groupFiles) > 1
    /\ Len(rootFiles) > 0
    /\ Len(organizedFiles) > 0

\* findDuplicates; the groups take the identifiers uuid, uuid + 1, ... in the
\* order they are pushed
RECURSIVE GroupsOfKeys(_, _, _)
GroupsOfKeys(files, keys, uuid) ==
    IF keys = << >> THEN << >>
    ELSE LET normalizedKey  == Head(keys)
             groupFiles     == FilesOfKey(files, normalizedKey)
             rootFiles      == SelectSeq(groupFiles, LAMBDA f : f.isInRoot)
             organizedFiles == SelectSeq(groupFiles, LAMBDA f : ~f.isInRoot)
         IN  IF IsDuplicateGroup(groupFiles, rootFiles, organizedFiles)
             THEN << [id |-> uuid,
                      normalizedKey |-> normalizedKey,
                      files |-> groupFiles,
                      rootFiles |-> rootFiles,
                      organizedFiles |-> organizedFiles] >>
                  \o GroupsOfKeys(files, Tail(keys), uuid + 1)
             ELSE GroupsOfKeys(files, Tail(keys), uuid)

findDuplicates(files, uuid) == GroupsOfKeys(files, KeysInOrder(files, << >>), uuid)

----------------------------------------------------------------------------
(* Duplicate cleaner, the user's directory tree *)

RootDir  == ""
AlbumDir == "Album"
TrashDir == "Trash"
Dirs == {RootDir, AlbumDir, TrashDir}

FileNameB  == << "b", ".", "m", "p", "3" >>
FileNameAB == << "a", "-", "b", ".", "m", "p", "3" >>
FileNames == {FileNameB, FileNameAB}

\* a path is <<directory, file name>>: "b.mp3" is <<RootDir, FileNameB>>,
\* "Trash/b.mp3" is <<TrashDir, FileNameB>>
Paths == (Dirs \X FileNames) \ { <<AlbumDir, FileNameB>> }

\* file contents: the bytes (data) and the ID3 tags they hold
NoFile == [data |-> 0, artist |-> << >>, title |-> << >>]
Contents ==
    { [data |-> 1, artist |-> << "A", "!" >>, title |-> << "b" >>],
      [data |-> 2, artist |-> << >>,          title |-> << >>],
      [data |-> 3, artist |-> << "!" >>,      title |-> << "?" >>],
      [data |-> 4, artist |-> << >>,          title |-> << "b" >>] }

EmptyFs == [p \in Paths |-> NoFile]

InitialFileSystems ==
    { f \in [Paths -> Contents \cup {NoFile}] :
        Cardinality({ p \in Paths : f[p] # NoFile }) <= MaxFiles }

\* contents that give the key "a::b" under the name "a-b.mp3"
SharedKeyContents == { c \in Contents : c.data \in {1, 2} }

\* libraries of one file more, with several files of one key on a side
LargerFileSystems ==
    { f \in [Paths -> SharedKeyContents \cup {NoFile}] :
        Cardinality({ p \in Paths : f[p] # NoFile }) <= MaxFiles + 1 }

\* the order in which dirHandle.values() yields the entries, sub-directories
\* entered as they are met: entries by name
ScanOrder ==
    << <<AlbumDir, FileNameAB>>,
       <<TrashDir, FileNameAB>>, <<TrashDir, FileNameB>>,
       <<RootDir, FileNameAB>>,  <<RootDir, FileNameB>> >>

----------------------------------------------------------------------------
(* Duplicate cleaner, the hook: hooks/useMusicLibrary.ts *)

\* the AudioFile built for an entry; handle and relativePath are the path
AudioFile(path, content, uuid) ==
    [id |-> uuid,
     name |-> path[2],
     path |-> path,
     metadata |-> extractMetadata(path[2], content),
     isInRoot |-> (path[1] = RootDir)]

\* scanDirectory(rootDirHandle, '', true): every directory below the root is
\* entered with isRoot = false
RECURSIVE ScanEntries(_, _, _)
ScanEntries(fsys, entries, uuid) ==
    IF entries = << >> THEN << >>
    ELSE LET path == Head(entries)
         IN  IF fsys[path] # NoFile /\ isSupportedAudioFile(path[2])
             THEN << AudioFile(path, fsys[path], uuid) >>
                  \o ScanEntries(fsys, Tail(entries), uuid + 1)
             ELSE ScanEntries(fsys, Tail(entries), uuid)

scanDirectory(fsys, uuid) == ScanEntries(fsys, ScanOrder, uuid)

\* a scan draws its identifiers from a block of its own: one for each file
\* and one for each group there can be
UuidsPerScan == Cardinality(Paths) + Cardinality(Paths)

NoMove == [called |-> FALSE]

IdleProgress == [status |-> "idle", filesScanned |-> 0, duplicatesFound |-> 0]

LibraryStart ==
    /\ rootDirHandle = FALSE
    /\ audioFiles = << >>
    /\ duplicateGroups = << >>
    /\ scanProgress = IdleProgress
    /\ moveOperations = << >>
    /\ scanPending = FALSE
    /\ nextUuid = 1
    /\ lastMove = NoMove

LibraryInit == fs \in InitialFileSystems /\ LibraryStart

selectDirectory ==
    /\ rootDirHandle' = TRUE
    /\ lastMove' = NoMove
    /\ UNCHANGED <<fs, audioFiles, duplicateGroups, scanProgress, moveOperations,
                   scanPending, nextUuid, namingVars, batchVars, editorVars, utilVars, cacheVars, recorder>>

\* startScan up to its await of scanDirectory
startScan ==
    /\ rootDirHandle
    /\ ~scanPending
    /\ nextUuid <= (MaxScans - 1) * UuidsPerScan + 1
    /\ scanProgress' = [status |-> "scanning", filesScanned |-> 0, duplicatesFound |-> 0]
    /\ scanPending' = TRUE
    /\ lastMove' = NoMove
    /\ UNCHANGED <<fs, rootDirHandle, audioFiles, duplicateGroups, moveOperations,
                   nextUuid, namingVars, batchVars, editorVars, utilVars, cacheVars, recorder>>

\* startScan from the moment scanDirectory resolves
startScanResolved ==
    /\ scanPending
    /\ LET files      == scanDirectory(fs, nextUuid)
           duplicates == findDuplicates(files, nextUuid + Len(files))
       IN  /\ audioFiles' = files
           /\ duplicateGroups' = duplicates
           /\ scanProgress' = [status |-> "completed",
                               filesScanned |-> Len(files),
                               duplicatesFound |-> Len(duplicates)]
           /\ nextUuid' = nextUuid + UuidsPerScan
    /\ scanPending' = FALSE
    /\ lastMove' = NoMove
    /\ UNCHANGED <<fs, rootDirHandle, moveOperations, namingVars, batchVars, editorVars, utilVars, cacheVars, recorder>>

\* startScan when scanDirectory rejects: the catch block
startScanRejected ==
    /\ scanPending
    /\ scanProgress' = [status |-> "error", filesScanned |-> 0, duplicatesFound |-> 0]
    /\ scanPending' = FALSE
    /\ lastMove' = NoMove
    /\ UNCHANGED <<fs, rootDirHandle, audioFiles, duplicateGroups, moveOperations,
                   nextUuid, namingVars, batchVars, editorVars, utilVars, cacheVars, recorder>>

\* duplicateGroups.find((g) => g.id === groupId)
FindGroup(groups, groupId) ==
    LET found == { i \in DOMAIN groups : groups[i].id = groupId }
    IN  IF found = {} THEN << >> ELSE << groups[Min(found)] >>

\* the (group, rootFile) pairs the two nested loops visit, in order
RECURSIVE RootFilesToMove(_, _)
RootFilesToMove(groups, groupIds) ==
    IF groupIds = << >> THEN << >>
    ELSE LET found == FindGroup(groups, Head(groupIds))
         IN  (IF found = << >> THEN << >>
              ELSE [i \in DOMAIN found[1].rootFiles |->
                       [group |-> found[1], rootFile |-> found[1].rootFiles[i]]])
             \o RootFilesToMove(groups, Tail(groupIds))

\* the body of the inner loop for one root file. getFile() rejects when the
\* file is gone or cannot be read (unreadable); otherwise the content is written
\* to the file of the same name in Trash, created if absent, and the original
\* is left where it is
MoveOne(state, item, unreadable) ==
    LET rootFile  == item.rootFile
        trashPath == <<TrashDir, rootFile.name>>
        reading   == [op |-> "getFile", path |-> rootFile.path]
    IN  IF state.fs[rootFile.path] = NoFile \/ rootFile.path \in unreadable
        THEN [fs |-> state.fs,
              log |-> state.log \cup {reading},
              operations |-> Append(state.operations,
                  [sourceFile |-> rootFile,
                   duplicateOf |-> item.group.organizedFiles[1],
                   success |-> FALSE,
                   error |-> "getFile rejected"])]
        ELSE [fs |-> [state.fs EXCEPT ![trashPath] = state.fs[rootFile.path]],
              log |-> state.log \cup {reading, [op |-> "write", path |-> trashPath]},
              operations |-> Append(state.operations,
                  [sourceFile |-> rootFile,
                   duplicateOf |-> item.group.organizedFiles[1],
                   success |-> TRUE,
                   error |-> ""])]

\* a loop that gives up at the first file that fails
RECURSIVE MoveAllUntilFailure(_, _, _)
MoveAllUntilFailure(state, items, unreadable) ==
    IF items = << >> THEN state
    ELSE LET moved == MoveOne(state, Head(items), unreadable)
         IN  IF moved.operations[Len(moved.operations)].success
             THEN MoveAllUntilFailure(moved, Tail(items), unreadable)
             ELSE moved

RECURSIVE MoveAll(_, _, _)
MoveAll(state, items, unreadable) ==
    IF items = << >> THEN state
    ELSE MoveAll(MoveOne(state, Head(items), unreadable), Tail(items), unreadable)

\* all orders of all subsets of a set: what Array.from(selectedGroups) can be
RECURSIVE Selections(_)
Selections(ids) ==
    { << >> } \cup UNION { { << id >> \o rest : rest \in Selections(ids \ {id}) }
                           : id \in ids }

\* an identifier no group of the current scan has (a group of an earlier scan)
StaleGroupId == 0

moveDuplicatesToTrash(groupIds, unreadable) ==
    /\ rootDirHandle
    /\ LET done == MoveAll([fs |-> fs, log |-> {}, operations |-> << >>],
                           RootFilesToMove(duplicateGroups, groupIds), unreadable)
       IN  /\ fs' = done.fs
           /\ moveOperations' = done.operations
           /\ lastMove' = [called |-> TRUE,
                           groupIds |-> groupIds,
                           duplicateGroups |-> duplicateGroups,
                           fsBefore |-> fs,
                           calls |-> done.log,
                           returned |-> done.operations]
    /\ UNCHANGED <<rootDirHandle, audioFiles, duplicateGroups, scanProgress,
                   scanPending, nextUuid, namingVars, batchVars, editorVars, utilVars, cacheVars, recorder>>

reset ==
    /\ rootDirHandle' = FALSE
    /\ audioFiles' = << >>
    /\ duplicateGroups' = << >>
    /\ scanProgress' = IdleProgress
    /\ moveOperations' = << >>
    /\ lastMove' = NoMove
    /\ UNCHANGED <<fs, scanPending, nextUuid, namingVars, batchVars, editorVars, utilVars, cacheVars, recorder>>

GroupIds == { duplicateGroups[i].id : i \in DOMAIN duplicateGroups }

\* the files getFile() can be called on: the root files of the groups
RootPaths ==
    UNION { { duplicateGroups[i].rootFiles[j].path : j \in DOMAIN duplicateGroups[i].rootFiles }
            : i \in DOMAIN duplicateGroups }

LibraryNext ==
    \/ selectDirectory
    \/ startScan
    \/ startScanResolved
    \/ startScanRejected
    \/ \E groupIds \in Selections(GroupIds \cup {StaleGroupId}),
          unreadable \in SUBSET RootPaths :
         moveDuplicatesToTrash(groupIds, unreadable)
    \/ reset

(* The page: components/MusicLibrary.tsx. The user cleans the library up: a *)
(* scan, then every reported group selected and moved, the handler scanning *)
(* again, with no I/O failure.                                               *)

\* the identifiers of the scan after this one. randomUUID never repeats; the
\* state holds identifiers of the current and the previous scan only, so the
\* blocks are taken in turn
UuidAfterScan ==
    IF nextUuid + UuidsPerScan > (MaxScans - 1) * UuidsPerScan + 1
    THEN 1 ELSE nextUuid + UuidsPerScan

\* startScan from its call to its return, scanDirectory resolving, over the
\* files as they are on disk then
ScanOf(fsys) ==
    LET files      == scanDirectory(fsys, nextUuid)
        duplicates == findDuplicates(files, nextUuid + Len(files))
    IN  [audioFiles |-> files,
         duplicateGroups |-> duplicates,
         scanProgress |-> [status |-> "completed",
                           filesScanned |-> Len(files),
                           duplicatesFound |-> Len(duplicates)]]

\* handleStartScan: the first scan of the directory
handleStartScan ==
    /\ rootDirHandle
    /\ scanProgress.status = "idle"
    /\ LET scan == ScanOf(fs)
       IN  /\ audioFiles' = scan.audioFiles
           /\ duplicateGroups' = scan.duplicateGroups
           /\ scanProgress' = scan.scanProgress
    /\ nextUuid' = UuidAfterScan
    /\ UNCHANGED <<fs, rootDirHandle, moveOperations, scanPending, lastMove,
                   namingVars, batchVars, editorVars, utilVars, cacheVars, recorder>>

\* handleMoveDuplicates(groupIds) with every group of the list selected:
\* moveDuplicatesToTrash, then startScan
handleMoveDuplicates ==
    /\ rootDirHandle
    /\ scanProgress.status = "completed"
    /\ duplicateGroups # << >>
    /\ LET groupIds == [i \in DOMAIN duplicateGroups |-> duplicateGroups[i].id]
           done == MoveAll([fs |-> fs, log |-> {}, operations |-> << >>],
                           RootFilesToMove(duplicateGroups, groupIds), {})
           scan == ScanOf(done.fs)
       IN  /\ fs' = done.fs
           /\ moveOperations' = done.operations
           /\ lastMove' = [called |-> TRUE,
                           groupIds |-> groupIds,
                           duplicateGroups |-> duplicateGroups,
                           fsBefore |-> fs,
                           calls |-> done.log,
                           returned |-> done.operations]
           /\ audioFiles' = scan.audioFiles
           /\ duplicateGroups' = scan.duplicateGroups
           /\ scanProgress' = scan.scanProgress
    /\ nextUuid' = UuidAfterScan
    /\ UNCHANGED <<rootDirHandle, scanPending, namingVars, batchVars, editorVars, utilVars, cacheVars, recorder>>

\* handleSelectDirectory, once
handleSelectDirectory ==
    /\ ~rootDirHandle
    /\ selectDirectory

CleanupNext ==
    \/ handleSelectDirectory
    \/ handleStartScan
    \/ handleMoveDuplicates

----------------------------------------------------------------------------
(* Batch operations: api/client.ts and components/BatchOperations.tsx; the   *)
(* server side of /api/batch/* is the Batch Operation Engine of the design   *)

\* the request bodies the API client posts
batchRename(files, useSuggestions, createBackup) ==
    [kind |-> "rename", files |-> files, use_suggestions |-> useSuggestions,
     create_backup |-> createBackup, metadata |-> [genre |-> NULL, year |-> NULL],
     fix_names |-> FALSE, fill_metadata |-> FALSE]

batchUpdateMetadata(files, metadata, createBackup) ==
    [kind |-> "metadata", files |-> files, use_suggestions |-> FALSE,
     create_backup |-> createBackup, metadata |-> metadata,
     fix_names |-> FALSE, fill_metadata |-> FALSE]

batchAutoFix(files, fixNames, fillMetadata, createBackup) ==
    [kind |-> "autofix", files |-> files, use_suggestions |-> FALSE,
     create_backup |-> createBackup, metadata |-> [genre |-> NULL, year |-> NULL],
     fix_names |-> fixNames, fill_metadata |-> fillMetadata]

\* the library on the server: file -> its current name and tags
ServerFileIds == {"f1", "f2", "f3"}

NoTags == [artist |-> NULL, title |-> NULL, album |-> NULL, genre |-> NULL, year |-> NULL]

InitialServerFiles ==
    [f \in ServerFileIds |->
        IF f = "f1" THEN [fileName |-> FileNameB,
                          metadata |-> [NoTags EXCEPT !.artist = << "a" >>,
                                                      !.title = << "b" >>]]
        ELSE IF f = "f2" THEN [fileName |-> FileNameAB, metadata |-> NoTags]
        ELSE [fileName |-> << "a", ".", "m", "p", "3" >>, metadata |-> NoTags]]

IdleBatch == [phase |-> "idle"]
IdlePanel == [loading |-> FALSE, results |-> NULL]
NoRestore == [called |-> FALSE]

BatchInit ==
    /\ serverFiles = InitialServerFiles
    /\ backups = << >>
    /\ batch = IdleBatch
    /\ panel = IdlePanel
    /\ restore = NoRestore

\* the paths the user can have selected: the names of the files of the library,
\* at least one (without a selection the panel shows no button)
RECURSIVE SetToSeq(_)
SetToSeq(S) ==
    IF S = {} THEN << >>
    ELSE LET x == CHOOSE y \in S : TRUE IN << x >> \o SetToSeq(S \ {x})

SelectedFiles ==
    { [i \in DOMAIN ids |-> serverFiles[ids[i]].fileName] :
        ids \in { SetToSeq(S) : S \in (SUBSET ServerFileIds) \ {{}} } }

\* a handler of the panel up to its await: setLoading(true), setResults(null),
\* and the request is sent
SendBatch(request) ==
    /\ ~panel.loading
    /\ batch.phase = "idle"
    /\ Len(backups) < MaxBackups
    /\ panel' = [loading |-> TRUE, results |-> NULL]
    /\ batch' = [phase |-> "pending", request |-> request, before |-> serverFiles,
                 cursor |-> 1, backup_id |-> 0,
                 success |-> << >>, metadata_updated |-> << >>, failed |-> << >>]
    /\ restore' = NoRestore
    /\ UNCHANGED <<serverFiles, backups, namingVars, libraryVars, editorVars, utilVars, cacheVars, recorder>>

handleBatchRename(selectedFiles) ==
    SendBatch(batchRename(selectedFiles, TRUE, TRUE))

\* the auto-fix request sent without asking for a backup
handleBatchAutoFixNoBackup(selectedFiles) ==
    SendBatch(batchAutoFix(selectedFiles, TRUE, TRUE, FALSE))

handleBatchAutoFix(selectedFiles) ==
    SendBatch(batchAutoFix(selectedFiles, TRUE, TRUE, TRUE))

\* genre and year are what the two prompts returned ("" when left empty); the
\* handler returns without a request when both are empty
handleBatchMetadata(selectedFiles, genre, year) ==
    /\ Truthy(genre) \/ Truthy(year)
    /\ SendBatch(batchUpdateMetadata(selectedFiles,
                    [genre |-> IF Truthy(genre) THEN genre ELSE NULL,
                     year |-> IF Truthy(year) THEN year ELSE NULL], TRUE))


(* The server side: runBatch and its backup snapshot *)

\* the file a path names now, as a set (empty when no file has that name)
ResolvePath(files, path) == { f \in ServerFileIds : files[f].fileName = path }

\* no file had the path when the snapshot was taken
NoServerFile == "none"

\* BackupSnapshot: (originalPath, originalMetadata, originalFilename) of every
\* input file; file is the file the tuple was captured from, which restore
\* finds again under the name it has by then
BackupSnapshot(files, paths) ==
    [i \in DOMAIN paths |->
        LET found == ResolvePath(files, paths[i])
        IN  IF found = {}
            THEN [originalPath |-> paths[i], originalFilename |-> NULL,
                  originalMetadata |-> NoTags, file |-> NoServerFile]
            ELSE LET f == CHOOSE x \in found : TRUE
                 IN  [originalPath |-> paths[i],
                      originalFilename |-> files[f].fileName,
                      originalMetadata |-> files[f].metadata,
                      file |-> f]]

\* step 1 of runBatch: the snapshot of every input file is stored before any
\* file is touched; when it cannot be stored the run is aborted
runBatchBackup(stored) ==
    /\ batch.phase = "pending"
    /\ IF batch.request.create_backup /\ stored
       THEN /\ backups' = Append(backups, BackupSnapshot(serverFiles, batch.request.files))
            /\ batch' = [batch EXCEPT !.phase = "applying",
                                      !.backup_id = Len(backups) + 1]
       ELSE IF batch.request.create_backup
            THEN /\ backups' = backups
                 /\ batch' = [batch EXCEPT !.phase = "aborted"]
            ELSE /\ backups' = backups
                 /\ batch' = [batch EXCEPT !.phase = "applying"]
    /\ UNCHANGED <<serverFiles, panel, restore, namingVars, libraryVars, editorVars, utilVars, cacheVars, recorder>>

\* the tags AutoFix fills in from the file name: only tags that are absent
FilledMetadata(file) ==
    LET extracted == extractArtistAndTitle(file.fileName)
    IN  IF Truthy(extracted.artist) /\ Truthy(extracted.title)
        THEN [file.metadata EXCEPT
                !.artist = IF Truthy(@) THEN @ ELSE extracted.artist,
                !.title = IF Truthy(@) THEN @ ELSE extracted.title]
        ELSE file.metadata

\* the explicit tags of a MetadataUpdate, laid over the file's tags
UpdatedMetadata(file, metadata) ==
    [file.metadata EXCEPT
        !.genre = IF Truthy(metadata.genre) THEN metadata.genre ELSE @,
        !.year = IF Truthy(metadata.year) THEN metadata.year ELSE @]

\* the name a rename gives the file: its suggested name; NULL when there is
\* none or another file holds it
RenameTarget(files, f, metadata) ==
    LET suggested == getSuggestedName(files[f].fileName, metadata, 0).name
    IN  IF suggested = NULL THEN NULL
        ELSE IF \E g \in ServerFileIds \ {f} : files[g].fileName = suggested THEN NULL
        ELSE suggested

\* step 2 of runBatch for the file under the cursor: the tag write and the
\* move succeed or fail on their own (tagOk, moveOk), failures are collected
runBatchApply(tagOk, moveOk) ==
    /\ batch.phase = "applying"
    /\ batch.cursor <= Len(batch.request.files)
    /\ LET request == batch.request
           path    == request.files[batch.cursor]
           found   == ResolvePath(serverFiles, path)
           f       == CHOOSE x \in found : TRUE
           file    == serverFiles[f]
           wanted  == IF request.kind = "metadata"
                      THEN UpdatedMetadata(file, request.metadata)
                      ELSE IF request.kind = "autofix" /\ request.fill_metadata
                      THEN FilledMetadata(file)
                      ELSE file.metadata
           tagged  == wanted # file.metadata /\ tagOk
           tags    == IF tagged THEN wanted ELSE file.metadata
           renames == request.kind = "rename"
                        \/ (request.kind = "autofix" /\ request.fix_names)
           target  == IF renames THEN RenameTarget(serverFiles, f, tags) ELSE NULL
           moved   == renames /\ target # NULL /\ moveOk
           failure == \/ wanted # file.metadata /\ ~tagged
                      \/ renames /\ ~moved
       IN  IF found = {}
           THEN /\ serverFiles' = serverFiles
                /\ batch' = [batch EXCEPT !.cursor = @ + 1,
                                          !.failed = Append(@, path)]
           ELSE /\ serverFiles' = [serverFiles EXCEPT ![f] =
                       [fileName |-> IF moved THEN target ELSE file.fileName,
                        metadata |-> tags]]
                /\ batch' = [batch EXCEPT
                       !.cursor = @ + 1,
                       !.success = IF moved \/ (~renames /\ ~failure)
                                   THEN Append(@, path) ELSE @,
                       !.metadata_updated = IF tagged THEN Append(@, path) ELSE @,
                       !.failed = IF failure THEN Append(@, path) ELSE @]
    /\ UNCHANGED <<backups, panel, restore, namingVars, libraryVars, editorVars, utilVars, cacheVars, recorder>>

\* the handler after its await: the response sets the results and calls
\* onOperationComplete; an error response raises the alert; finally
\* setLoading(false)
handleBatchResponse ==
    /\ \/ batch.phase = "aborted"
       \/ batch.phase = "applying" /\ batch.cursor > Len(batch.request.files)
    /\ panel' = [loading |-> FALSE,
                 results |-> IF batch.phase = "aborted" THEN NULL
                             ELSE [success |-> batch.success,
                                   metadata_updated |-> batch.metadata_updated,
                                   failed |-> batch.failed,
                                   backup_id |-> batch.backup_id]]
    /\ batch' = IdleBatch
    /\ UNCHANGED <<serverFiles, backups, restore, namingVars, libraryVars, editorVars, utilVars, cacheVars, recorder>>

(* Restore: api.restoreBackup and the server's restore *)

\* one captured tuple replayed: the file's name and tags are written back to
\* the captured original. What is already as captured is left alone; a write
\* is impossible when the file cannot be written (unwritable) or another file
\* holds the name
RestoreEntry(files, entry, unwritable) ==
    IF entry.file = NoServerFile THEN files
    ELSE LET f        == entry.file
             current  == files[f]
             nameFree == \A g \in ServerFileIds \ {f} :
                            files[g].fileName # entry.originalFilename
             writable == f \notin unwritable
         IN  [files EXCEPT ![f] =
                [fileName |-> IF current.fileName # entry.originalFilename
                                  /\ writable /\ nameFree
                              THEN entry.originalFilename ELSE current.fileName,
                 metadata |-> IF current.metadata # entry.originalMetadata /\ writable
                              THEN entry.originalMetadata ELSE current.metadata]]

\* the captured tuples replayed in reverse, every one attempted
RECURSIVE RestoreAll(_, _, _)
RestoreAll(files, entries, unwritable) ==
    IF entries = << >> THEN files
    ELSE RestoreAll(RestoreEntry(files, entries[Len(entries)], unwritable),
                    SubSeq(entries, 1, Len(entries) - 1), unwritable)

\* what the two restore actions below record of a call
RestoreRecord(backupId, unwritable, after) ==
    IF restore.called /\ restore.backupId = backupId /\ restore.found
          /\ restore.unwritable = unwritable /\ restore.count = 1
    THEN [restore EXCEPT !.count = 2]
    ELSE [called |-> TRUE, backupId |-> backupId, unwritable |-> unwritable,
          found |-> backupId \in DOMAIN backups, count |-> 1,
          before |-> serverFiles, first |-> after]

\* a restore that keeps what it overwrites in the backup, to be undone by the
\* next restore
restoreBackupSwapping(backupId, unwritable) ==
    /\ batch.phase = "idle"
    /\ IF backupId \in DOMAIN backups
       THEN /\ serverFiles' = RestoreAll(serverFiles, backups[backupId], unwritable)
            /\ LET kept == backups[backupId]
               IN  backups' = [backups EXCEPT ![backupId] =
                     [i \in DOMAIN kept |->
                         IF kept[i].file = NoServerFile THEN kept[i]
                         ELSE [originalPath |-> kept[i].originalPath,
                               originalFilename |-> serverFiles[kept[i].file].fileName,
                               originalMetadata |-> serverFiles[kept[i].file].metadata,
                               file |-> kept[i].file]]]
       ELSE UNCHANGED <<serverFiles, backups>>
    /\ restore' = RestoreRecord(backupId, unwritable, serverFiles')
    /\ UNCHANGED <<batch, panel, namingVars, libraryVars, editorVars, utilVars, cacheVars, recorder>>

\* api.restoreBackup(backupId): POST /api/batch/restore/{backupId}; the server
\* restores, or answers "not found" and the client throws. No run is in
\* flight
restoreBackup(backupId, unwritable) ==
    /\ batch.phase = "idle"
    /\ serverFiles' = IF backupId \in DOMAIN backups
                      THEN RestoreAll(serverFiles, backups[backupId], unwritable)
                      ELSE serverFiles
    /\ restore' = RestoreRecord(backupId, unwritable, serverFiles')
    /\ UNCHANGED <<backups, batch, panel, namingVars, libraryVars, editorVars, utilVars, cacheVars, recorder>>

\* the backup ids a caller can name: those of the history and one beyond
BackupIds == 1..(MaxBackups + 1)

\* the files whose writes can be impossible during a restore
Unwritable == { {}, {"f1"} }

PromptAnswers == { << >>, << "x" >> }

BatchNext ==
    \/ \E selectedFiles \in SelectedFiles : handleBatchRename(selectedFiles)
    \/ \E selectedFiles \in SelectedFiles : handleBatchAutoFix(selectedFiles)
    \/ \E selectedFiles \in SelectedFiles, genre \in PromptAnswers, year \in PromptAnswers :
         handleBatchMetadata(selectedFiles, genre, year)
    \/ \E stored \in BOOLEAN : runBatchBackup(stored)
    \/ \E tagOk \in BOOLEAN, moveOk \in BOOLEAN : runBatchApply(tagOk, moveOk)
    \/ handleBatchResponse
    \/ \E backupId \in BackupIds, unwritable \in Unwritable :
         restoreBackup(backupId, unwritable)

----------------------------------------------------------------------------
(* The naming page: hooks/useMusicLibrary.ts, in its two versions. The local *)
(* one reads the files in the browser; the backend one asks the server.      *)

Hooks == {"local", "backend"}

\* the file of the library and the tags it can hold
EditorFileNames == { FileNameB, << "A", " ", "-", " ", "B", ".", "m", "p", "3" >> }
EditorMetadata ==
    [artist : {NULL, << "a" >>}, title : {NULL, << "b" >>}, album : {NULL}]

\* what the MetadataEditor hands to onSave
EditedMetadata ==
    [artist : {NULL, << >>, << "a" >>}, title : {NULL, << "b" >>}, album : {NULL}]

FileId == 1
\* the id of a file the list no longer holds
GoneFileId == 2

NoUpdate == [status |-> "idle"]

EditorInit ==
    /\ hook \in Hooks
    /\ musicFiles = << >>
    /\ update = NoUpdate

\* the MusicFile the local scan builds for a file: analyzeFileName, then
\* getSuggestedName
MusicFile(fileName, metadata, li) ==
    LET analyzed == analyzeFileName(fileName, metadata, li)
    IN  [id |-> FileId, fileName |-> fileName, metadata |-> metadata,
         issues |-> analyzed.issues,
         suggestedName |-> getSuggestedName(fileName, metadata, analyzed.lastIndex).name]

\* the file as the server's scan reports it: issues and suggested_name are
\* those of the naming analyzer
ApiMusicFile(fileName, metadata) ==
    [id |-> FileId, filename |-> fileName, metadata |-> metadata,
     issues |-> analyzeFileName(fileName, metadata, 0).issues,
     suggested_name |-> getSuggestedName(fileName, metadata, 0).name]

convertApiFile(apiFile) ==
    [id |-> apiFile.id, fileName |-> apiFile.filename,
     metadata |-> [k \in DOMAIN apiFile.metadata |->
                      IF Truthy(apiFile.metadata[k]) THEN apiFile.metadata[k] ELSE NULL],
     issues |-> apiFile.issues,
     suggestedName |-> IF Truthy(apiFile.suggested_name) THEN apiFile.suggested_name
                       ELSE NULL]

\* scanLibrary of the local hook, over a directory that holds one file
scanLibraryLocal(fileName, metadata) ==
    /\ hook = "local"
    /\ LET analyzed == analyzeFileName(fileName, metadata, lastIndex)
       IN  /\ musicFiles' = << MusicFile(fileName, metadata, lastIndex) >>
           /\ lastIndex' = getSuggestedName(fileName, metadata, analyzed.lastIndex).lastIndex
    /\ UNCHANGED <<hook, update, analysis, libraryVars, batchVars, utilVars, cacheVars, recorder>>

\* scanLibrary of the backend hook, from the request to setFiles
scanLibraryBackend(fileName, metadata) ==
    /\ hook = "backend"
    /\ update.status # "pending"
    /\ musicFiles' = << convertApiFile(ApiMusicFile(fileName, metadata)) >>
    /\ UNCHANGED <<hook, update, namingVars, libraryVars, batchVars, utilVars, cacheVars, recorder>>

\* { ...f.metadata, ...newMetadata }
SpreadMetadata(metadata, newMetadata) ==
    [k \in DOMAIN metadata \cup DOMAIN newMetadata |->
        IF k \in DOMAIN newMetadata THEN newMetadata[k] ELSE metadata[k]]

\* prevFiles.map of the local hook: issues and suggestedName are computed anew
RECURSIVE MapUpdateLocal(_, _, _, _)
MapUpdateLocal(files, fileId, newMetadata, li) ==
    IF files = << >> THEN [files |-> << >>, lastIndex |-> li]
    ELSE LET file == Head(files)
             updatedMetadata == SpreadMetadata(file.metadata, newMetadata)
             analyzed  == analyzeFileName(file.fileName, updatedMetadata, li)
             suggested == getSuggestedName(file.fileName, updatedMetadata, analyzed.lastIndex)
             rest == MapUpdateLocal(Tail(files), fileId, newMetadata,
                                    IF file.id = fileId THEN suggested.lastIndex ELSE li)
         IN  [files |-> << IF file.id = fileId
                           THEN [file EXCEPT !.metadata = updatedMetadata,
                                             !.issues = analyzed.issues,
                                             !.suggestedName = suggested.name]
                           ELSE file >> \o rest.files,
              lastIndex |-> rest.lastIndex]

\* updateFileMetadata of the local hook
updateFileMetadataLocal(fileId, newMetadata) ==
    /\ hook = "local"
    /\ LET mapped == MapUpdateLocal(musicFiles, fileId, newMetadata, lastIndex)
       IN  /\ musicFiles' = mapped.files
           /\ lastIndex' = mapped.lastIndex
    /\ update' = [status |-> "done", fileId |-> fileId, newMetadata |-> newMetadata,
                  success |-> \E i \in DOMAIN musicFiles : musicFiles[i].id = fileId,
                  lastIndexBefore |-> lastIndex]
    /\ UNCHANGED <<hook, analysis, libraryVars, batchVars, utilVars, cacheVars, recorder>>

\* files.map of the backend hook: the metadata is replaced, issues and
\* suggestedName are carried over
MapUpdateBackend(files, fileId, newMetadata) ==
    [i \in DOMAIN files |->
        IF files[i].id = fileId
        THEN [files[i] EXCEPT !.metadata = SpreadMetadata(files[i].metadata, newMetadata)]
        ELSE files[i]]

\* updateFileMetadata of the backend hook up to its await of api.updateMetadata;
\* without the file it sets the error and returns
updateFileMetadataBackend(fileId, newMetadata) ==
    /\ hook = "backend"
    /\ update.status # "pending"
    /\ update' = IF \E i \in DOMAIN musicFiles : musicFiles[i].id = fileId
                 THEN [status |-> "pending", fileId |-> fileId,
                       newMetadata |-> newMetadata, lastIndexBefore |-> lastIndex]
                 ELSE [status |-> "done", fileId |-> fileId, newMetadata |-> newMetadata,
                       success |-> FALSE, lastIndexBefore |-> lastIndex]
    /\ UNCHANGED <<hook, musicFiles, namingVars, libraryVars, batchVars, utilVars, cacheVars, recorder>>

\* updateFileMetadata of the backend hook after the await: on response.success
\* the list is mapped; otherwise (success false, or the request rejected)
\* the list stays
updateMetadataResponse(success) ==
    /\ update.status = "pending"
    /\ musicFiles' = IF success
                     THEN MapUpdateBackend(musicFiles, update.fileId, update.newMetadata)
                     ELSE musicFiles
    /\ update' = [status |-> "done", fileId |-> update.fileId,
                  newMetadata |-> update.newMetadata, success |-> success,
                  lastIndexBefore |-> update.lastIndexBefore]
    /\ UNCHANGED <<hook, namingVars, libraryVars, batchVars, utilVars, cacheVars, recorder>>

EditorNext ==
    \/ \E fileName \in EditorFileNames, metadata \in EditorMetadata :
         scanLibraryLocal(fileName, metadata)
    \/ \E fileName \in EditorFileNames, metadata \in EditorMetadata :
         scanLibraryBackend(fileName, metadata)
    \/ \E fileId \in {FileId, GoneFileId}, newMetadata \in EditedMetadata :
         updateFileMetadataLocal(fileId, newMetadata)
    \/ \E fileId \in {FileId, GoneFileId}, newMetadata \in EditedMetadata :
         updateFileMetadataBackend(fileId, newMetadata)
    \/ \E success \in BOOLEAN : updateMetadataResponse(success)

----------------------------------------------------------------------------
(* Calls of the pure functions of utils/metadata.ts *)

NormalizeAlphabet ==
    {"e", "B", "1", "-", " ", LowerEAcute, UpperEAcute, CombiningAcute}

\* the strings normalizeString is called with, and undefined
NormalizeInputs == StringsUpTo(NormalizeAlphabet, MaxNormalizeLen) \cup {NULL}

\* the titles createNormalizedKey is called with, beside the artist
KeyTitles == {NULL, << >>, << "b" >>}

InsertAt(s, i, c) == SubSeq(s, 1, i - 1) \o << c >> \o SubSeq(s, i, Len(s))

\* the precomposed letter for an ASCII letter with the acute accent, and back
Accented(c) ==
    CASE c = "e" -> LowerEAcute
      [] c = "E" -> UpperEAcute
      [] c = LowerEAcute -> "e"
      [] c = UpperEAcute -> "E"
      [] OTHER -> c

\* the strings that differ from s in one place only: the case of one letter,
\* a diacritical mark on one ASCII letter (combining, or in the precomposed
\* letter), one character that is no ASCII letter or digit put in
Variants(s) ==
    { [s EXCEPT ![i] = Accented(s[i])] : i \in DOMAIN s } \cup
    { [s EXCEPT ![i] = IF LowerChar(s[i]) = s[i] THEN UpperChar(s[i]) ELSE LowerChar(s[i])]
        : i \in DOMAIN s }
    \cup { InsertAt(s, i + 1, CombiningAcute) : i \in { j \in DOMAIN s : IsLetter(s[j]) } }
    \cup { InsertAt(s, i, c) : i \in 1..(Len(s) + 1), c \in {"-", " ", "!"} }

NotNormalizing == [phase |-> "idle"]

\* the variants of the string the call in hand was given
VariantsOfInput ==
    IF normalizing.phase = "once" /\ normalizing.input # NULL
    THEN Variants(normalizing.input) ELSE {}

NormalizeInit ==
    normalizing \in { [phase |-> "given", input |-> str] : str \in NormalizeInputs }

\* normalizeString(str)
normalizeStringCall ==
    /\ normalizing.phase = "given"
    /\ normalizing' = [phase |-> "once", input |-> normalizing.input,
                       result |-> normalizeStringResult(normalizing.input)]
    /\ UNCHANGED <<detecting, namingVars, libraryVars, batchVars, editorVars, cacheVars, recorder>>

\* normalizeString applied to what normalizeString returned
normalizeStringAgain ==
    /\ normalizing.phase = "once"
    /\ ~normalizing.result.threw
    /\ normalizing' = [phase |-> "twice", input |-> normalizing.input,
                       result |-> normalizing.result,
                       again |-> normalizeStringResult(normalizing.result.value)]
    /\ UNCHANGED <<detecting, namingVars, libraryVars, batchVars, editorVars, cacheVars, recorder>>

\* normalizeString applied to a string that differs from the input in one place
normalizeVariantCall(variant) ==
    /\ normalizing.phase = "once"
    /\ normalizing' = [phase |-> "variant", input |-> normalizing.input,
                       result |-> normalizing.result,
                       variant |-> variant,
                       variantResult |-> normalizeStringResult(variant)]
    /\ UNCHANGED <<detecting, namingVars, libraryVars, batchVars, editorVars, cacheVars, recorder>>

\* createNormalizedKey({artist: str, title})
createNormalizedKeyCall(title) ==
    /\ normalizing.phase = "given"
    /\ LET metadata == [artist |-> normalizing.input, title |-> title]
       IN  normalizing' = [phase |-> "key", input |-> normalizing.input,
                           metadata |-> metadata,
                           result |-> createNormalizedKeyResult(metadata)]
    /\ UNCHANGED <<detecting, namingVars, libraryVars, batchVars, editorVars, cacheVars, recorder>>

NormalizeNext ==
    \/ normalizeStringCall
    \/ normalizeStringAgain
    \/ \E variant \in VariantsOfInput : normalizeVariantCall(variant)
    \/ \E title \in KeyTitles : createNormalizedKeyCall(title)

NotDetecting == [phase |-> "idle"]

\* the metadata of the files findDuplicates is called with: two keys, one of
\* them written in two ways, a pair that differs from "a"/"b" only in where
\* the artist ends, and a file without metadata
DetectMetadata ==
    { [artist |-> << "a" >>, title |-> << "b" >>],
      [artist |-> << "A", "!" >>, title |-> << "b" >>],
      [artist |-> << "c" >>, title |-> << "d" >>],
      [artist |-> << "a", "b" >>, title |-> << >>],
      NullMetadata }

\* the AudioFile at position i of the input
DetectFile(i, metadata, isInRoot) ==
    [id |-> i,
     name |-> FileNameB,
     path |-> << IF isInRoot THEN RootDir ELSE AlbumDir, FileNameB >>,
     metadata |-> metadata,
     isInRoot |-> isInRoot]

\* the files of an input, from the metadata and the side of each
DetectFiles(kinds) ==
    [i \in DOMAIN kinds |-> DetectFile(i, kinds[i][1], kinds[i][2])]

\* findDuplicates is given up to MaxDetectFiles files
DetectInit ==
    \E n \in 0..MaxDetectFiles :
        \E kinds \in [1..n -> DetectMetadata \X BOOLEAN] :
            detecting = [phase |-> "given", files |-> DetectFiles(kinds)]

\* findDuplicates(files)
findDuplicatesCall ==
    /\ detecting.phase = "given"
    /\ detecting' = [phase |-> "done", files |-> detecting.files,
                     result |-> findDuplicates(detecting.files, Len(detecting.files) + 1)]
    /\ UNCHANGED <<normalizing, namingVars, libraryVars, batchVars, editorVars, cacheVars, recorder>>

DetectNext == findDuplicatesCall

UtilIdle == normalizing = NotNormalizing /\ detecting = NotDetecting

----------------------------------------------------------------------------
(* The backend hook with its cache: hooks/useMusicLibrary.ts over the API.  *)
(* Names and tags are kept as versions: what matters is which call wrote.   *)

FileVersions == {"v0", "v1"}
\* what an edit writes: a value the file did not have when scanned
EditedVersions == {"v1"}

\* the file of the directory as the server's scan reports it
ApiFile(id, filename, metadata) == [id |-> id, filename |-> filename, metadata |-> metadata]

\* the directories the server can hold: up to MaxDirFiles files, ids in order
Directories ==
    UNION { { [i \in 1..n |-> ApiFile(i, versions[i][1], versions[i][2])] :
                versions \in [1..n -> FileVersions \X FileVersions] }
            : n \in 0..MaxDirFiles }

\* convertApiFile, on the fields kept here
convertApiFileOf(apiFile) ==
    [id |-> apiFile.id, fileName |-> apiFile.filename, metadata |-> apiFile.metadata]

\* the ScanResponse for a request with offset and limit: the slice of the
\* listing, its length, and whether files remain after it
ScanResponse(dir, offset, limit) ==
    LET last  == IF offset + limit < Len(dir) THEN offset + limit ELSE Len(dir)
        files == SubSeq(dir, offset + 1, last)
    IN  [files |-> files, total |-> Len(dir), scanned |-> Len(files),
         offset |-> offset, has_more |-> offset + Len(files) < Len(dir)]

\* localStorage: the two keys of the cache, each set or not
CacheAbsent == [present |-> FALSE, files |-> << >>, timestamp |-> FALSE]
NoRequest == [kind |-> "none"]
CallSlots == 1..MaxCalls

CacheStart ==
    /\ libFiles = << >>
    /\ libScanning = FALSE
    /\ libProgress = [current |-> 0, total |-> 0]
    /\ libError = FALSE
    /\ libCache = CacheAbsent
    /\ libCalls = [c \in CallSlots |-> NoRequest]

CacheIdle == libDir = << >> /\ CacheStart

\* scanLibrary up to its first await
scanLibrary(c) ==
    /\ libCalls[c] = NoRequest
    /\ libScanning' = TRUE
    /\ libFiles' = << >>
    /\ libError' = FALSE
    /\ libProgress' = [current |-> 0, total |-> 0]
    /\ libCalls' = [libCalls EXCEPT ![c] =
          [kind |-> "scan", first |-> TRUE, offset |-> 0, totalFiles |-> 0,
           allFiles |-> << >>]]
    /\ UNCHANGED <<libDir, libCache, namingVars, libraryVars, batchVars, editorVars, utilVars, recorder>>

\* a version of the loop body that keeps the last batch only
ReplaceByBatch(allFiles, newFiles) == newFiles

\* the batches of a response put after those already held
AppendBatch(allFiles, newFiles) == allFiles \o newFiles

\* scanLibrary from a response of api.scanDirectory to the next await: the
\* batch is added, files and scanProgress are set; after the last batch the
\* list is written to the cache (cacheOk: the write succeeds) and scanning is
\* set to false
scanLibraryResponse(c, cacheOk) ==
    /\ libCalls[c].kind = "scan"
    /\ LET call       == libCalls[c]
           response   == ScanResponse(libDir, call.offset, BatchSize)
           newFiles   == [i \in DOMAIN response.files |-> convertApiFileOf(response.files[i])]
           totalFiles == IF call.first THEN response.total ELSE call.totalFiles
           allFiles   == IF call.first THEN newFiles ELSE AppendBatch(call.allFiles, newFiles)
       IN  /\ libFiles' = allFiles
           /\ libProgress' = [current |-> Len(allFiles), total |-> totalFiles]
           /\ IF response.has_more
              THEN /\ libCalls' = [libCalls EXCEPT ![c] =
                         [kind |-> "scan", first |-> FALSE,
                          offset |-> call.offset + response.scanned,
                          totalFiles |-> totalFiles, allFiles |-> allFiles]]
                   /\ UNCHANGED <<libScanning, libCache>>
              ELSE /\ libCalls' = [libCalls EXCEPT ![c] = NoRequest]
                   /\ libCache' = IF cacheOk
                                  THEN [present |-> TRUE, files |-> allFiles, timestamp |-> TRUE]
                                  ELSE libCache
                   /\ libScanning' = FALSE
    /\ UNCHANGED <<libDir, libError, namingVars, libraryVars, batchVars, editorVars, utilVars, recorder>>

\* scanLibrary when api.scanDirectory rejects: the catch block sets the error,
\* finally sets scanning to false
scanLibraryRejected(c) ==
    /\ libCalls[c].kind = "scan"
    /\ libError' = TRUE
    /\ libScanning' = FALSE
    /\ libCalls' = [libCalls EXCEPT ![c] = NoRequest]
    /\ UNCHANGED <<libDir, libFiles, libProgress, libCache,
                   namingVars, libraryVars, batchVars, editorVars, utilVars, recorder>>

\* handleScan of LibraryScanner: the button is rendered while not scanning
handleScan(c) == ~libScanning /\ scanLibrary(c)

\* scans started from the button, first to last batch
ScanNext ==
    \/ handleScan(1)
    \/ \E cacheOk \in BOOLEAN : scanLibraryResponse(1, cacheOk)
    \/ scanLibraryRejected(1)

FileIds == 1..MaxDirFiles
HasFile(files, fileId) == \E i \in DOMAIN files : files[i].id = fileId

\* another call of the hook is in flight for the file
FileBusy(fileId) ==
    \E c \in CallSlots : libCalls[c].kind \in {"update", "rename"} /\ libCalls[c].fileId = fileId

\* the server writes the tags of the file
ServerUpdateMetadata(dir, fileId, newMetadata) ==
    [i \in DOMAIN dir |->
        IF dir[i].id = fileId THEN [dir[i] EXCEPT !.metadata = newMetadata] ELSE dir[i]]

\* the server renames the file
ServerRenameFile(dir, fileId, newName) ==
    [i \in DOMAIN dir |->
        IF dir[i].id = fileId THEN [dir[i] EXCEPT !.filename = newName] ELSE dir[i]]

\* files.map of updateFileMetadata
MapMetadata(files, fileId, newMetadata) ==
    [i \in DOMAIN files |->
        IF files[i].id = fileId THEN [files[i] EXCEPT !.metadata = newMetadata] ELSE files[i]]

\* files.map of renameFile
MapFileName(files, fileId, newName) ==
    [i \in DOMAIN files |->
        IF files[i].id = fileId THEN [files[i] EXCEPT !.fileName = newName] ELSE files[i]]

\* updateFileMetadata of the backend hook up to its await; files is the list
\* of the render that made the callback, kept by the call
updateFileMetadataCall(c, fileId, newMetadata) ==
    /\ libCalls[c] = NoRequest
    /\ IF HasFile(libFiles, fileId)
       THEN /\ libError' = FALSE
            /\ libCalls' = [libCalls EXCEPT ![c] =
                  [kind |-> "update", fileId |-> fileId, value |-> newMetadata,
                   files |-> libFiles]]
       ELSE /\ libError' = TRUE
            /\ UNCHANGED libCalls
    /\ UNCHANGED <<libDir, libFiles, libScanning, libProgress, libCache,
                   namingVars, libraryVars, batchVars, editorVars, utilVars, recorder>>

\* updateFileMetadata when the server has written the tags and answers
\* success: the list is mapped, set, and written to the cache
updateFileMetadataSucceeds(c, cacheOk) ==
    /\ libCalls[c].kind = "update"
    /\ LET call         == libCalls[c]
           updatedFiles == MapMetadata(call.files, call.fileId, call.value)
       IN  /\ libDir' = ServerUpdateMetadata(libDir, call.fileId, call.value)
           /\ libFiles' = updatedFiles
           /\ libCache' = IF cacheOk THEN [libCache EXCEPT !.present = TRUE, !.files = updatedFiles]
                                     ELSE libCache
    /\ libCalls' = [libCalls EXCEPT ![c] = NoRequest]
    /\ UNCHANGED <<libScanning, libProgress, libError,
                   namingVars, libraryVars, batchVars, editorVars, utilVars, recorder>>

\* updateFileMetadata when the server answers success = false, or the request
\* is rejected and the catch block sets the error
updateFileMetadataFails(c, rejected) ==
    /\ libCalls[c].kind = "update"
    /\ libError' = (libError \/ rejected)
    /\ libCalls' = [libCalls EXCEPT ![c] = NoRequest]
    /\ UNCHANGED <<libDir, libFiles, libScanning, libProgress, libCache,
                   namingVars, libraryVars, batchVars, editorVars, utilVars, recorder>>

\* renameFile of the backend hook up to its await
renameFileCall(c, fileId, newName) ==
    /\ libCalls[c] = NoRequest
    /\ IF HasFile(libFiles, fileId)
       THEN /\ libError' = FALSE
            /\ libCalls' = [libCalls EXCEPT ![c] =
                  [kind |-> "rename", fileId |-> fileId, value |-> newName,
                   files |-> libFiles]]
       ELSE /\ libError' = TRUE
            /\ UNCHANGED libCalls
    /\ UNCHANGED <<libDir, libFiles, libScanning, libProgress, libCache,
                   namingVars, libraryVars, batchVars, editorVars, utilVars, recorder>>

\* renameFile when the server has renamed the file and answers success
renameFileSucceeds(c, cacheOk) ==
    /\ libCalls[c].kind = "rename"
    /\ LET call         == libCalls[c]
           updatedFiles == MapFileName(call.files, call.fileId, call.value)
       IN  /\ libDir' = ServerRenameFile(libDir, call.fileId, call.value)
           /\ libFiles' = updatedFiles
           /\ libCache' = IF cacheOk THEN [libCache EXCEPT !.present = TRUE, !.files = updatedFiles]
                                     ELSE libCache
    /\ libCalls' = [libCalls EXCEPT ![c] = NoRequest]
    /\ UNCHANGED <<libScanning, libProgress, libError,
                   namingVars, libraryVars, batchVars, editorVars, utilVars, recorder>>

\* renameFile when the server answers success = false, or the request is
\* rejected and the catch block sets the error
renameFileFails(c, rejected) ==
    /\ libCalls[c].kind = "rename"
    /\ libError' = (libError \/ rejected)
    /\ libCalls' = [libCalls EXCEPT ![c] = NoRequest]
    /\ UNCHANGED <<libDir, libFiles, libScanning, libProgress, libCache,
                   namingVars, libraryVars, batchVars, editorVars, utilVars, recorder>>

\* edits of files of a scanned library, each file by one call at a time;
\* the writes to localStorage succeed
UpdatesNext ==
    \/ \E c \in CallSlots, fileId \in FileIds, newMetadata \in EditedVersions :
          ~FileBusy(fileId) /\ updateFileMetadataCall(c, fileId, newMetadata)
    \/ \E c \in CallSlots : updateFileMetadataSucceeds(c, TRUE)
    \/ \E c \in CallSlots, rejected \in BOOLEAN : updateFileMetadataFails(c, rejected)
    \/ \E c \in CallSlots, fileId \in FileIds, newName \in EditedVersions :
          ~FileBusy(fileId) /\ renameFileCall(c, fileId, newName)
    \/ \E c \in CallSlots : renameFileSucceeds(c, TRUE)
    \/ \E c \in CallSlots, rejected \in BOOLEAN : renameFileFails(c, rejected)

\* clearLibrary: the list, the progress and the error are reset and both keys
\* of the cache removed
clearLibrary ==
    /\ libFiles' = << >>
    /\ libProgress' = [current |-> 0, total |-> 0]
    /\ libError' = FALSE
    /\ libCache' = CacheAbsent
    /\ UNCHANGED <<libDir, libScanning, libCalls,
                   namingVars, libraryVars, batchVars, editorVars, utilVars, recorder>>

\* the page is loaded again: the state is as constructed, the calls of the
\* page before are gone, and the mount effect loads a cached list that is
\* there with its timestamp and is not empty
loadCachedFiles ==
    /\ libScanning' = FALSE
    /\ libError' = FALSE
    /\ libCalls' = [c \in CallSlots |-> NoRequest]
    /\ IF libCache.present /\ libCache.timestamp /\ Len(libCache.files) > 0
       THEN /\ libFiles' = libCache.files
            /\ libProgress' = [current |-> Len(libCache.files), total |-> Len(libCache.files)]
       ELSE /\ libFiles' = << >>
            /\ libProgress' = [current |-> 0, total |-> 0]
    /\ UNCHANGED <<libDir, libCache, namingVars, libraryVars, batchVars, editorVars, utilVars, recorder>>

\* scans, clearing and reloading, with every write to localStorage succeeding
MirrorNext ==
    \/ handleScan(1)
    \/ scanLibraryResponse(1, TRUE)
    \/ scanLibraryRejected(1)
    \/ clearLibrary
    \/ loadCachedFiles

\* handleOperationComplete of the page: a batch operation has completed and
\* the library is scanned again, whatever else is in flight
handleOperationComplete(c) == scanLibrary(c)

\* scans started by the user and by completed batch operations, overlapping
OverlapNext ==
    \/ \E c \in CallSlots : handleScan(c)
    \/ \E c \in CallSlots : handleOperationComplete(c)
    \/ \E c \in CallSlots : \E cacheOk \in BOOLEAN : scanLibraryResponse(c, cacheOk)
    \/ \E c \in CallSlots : scanLibraryRejected(c)

----------------------------------------------------------------------------
(* The recorder: hooks/useAudioRecorder.ts *)

NoStream == 0
NoRecorder == [made |-> FALSE]

\* the hook as constructed: no stream, no recorder, no recording
RecorderInit ==
    recorder = [micActive        |-> FALSE,
                recording        |-> FALSE,
                recordings       |-> << >>,
                mediaStreamRef   |-> NoStream,
                mediaRecorderRef |-> NoRecorder,
                streams          |-> << >>,   \* every stream opened: "live" or "stopped"
                activations      |-> << >>,   \* getUserMedia calls awaited, with their closures
                stops            |-> << >>,   \* stop events not yet delivered to onstop
                nextId           |-> 1]

\* the number in `Grabación ${recordings.length + 1}`: recordings is the list
\* of the render in which activateMic was called
RecordingNumber(closureLength) == closureLength + 1

\* activateMic up to its await
activateMic ==
    /\ ~recorder.micActive
    /\ recorder' = [recorder EXCEPT !.activations =
          Append(@, [recordings |-> Len(recorder.recordings)])]
    /\ UNCHANGED <<namingVars, libraryVars, batchVars, editorVars, utilVars, cacheVars>>

\* activateMic when getUserMedia resolves with a new stream: the refs are set,
\* onstop is installed with the closure of the call, micActive is set
activateMicResolved(i) ==
    /\ i \in DOMAIN recorder.activations
    /\ LET stream == Len(recorder.streams) + 1
       IN  recorder' = [recorder EXCEPT
              !.activations = SubSeq(@, 1, i - 1) \o SubSeq(@, i + 1, Len(@)),
              !.streams = Append(@, "live"),
              !.mediaStreamRef = stream,
              !.mediaRecorderRef = [made |-> TRUE, state |-> "inactive",
                                    recordings |-> recorder.activations[i].recordings],
              !.micActive = TRUE]
    /\ UNCHANGED <<namingVars, libraryVars, batchVars, editorVars, utilVars, cacheVars>>

\* activateMic when getUserMedia rejects: the catch block
activateMicRejected(i) ==
    /\ i \in DOMAIN recorder.activations
    /\ recorder' = [recorder EXCEPT
          !.activations = SubSeq(@, 1, i - 1) \o SubSeq(@, i + 1, Len(@))]
    /\ UNCHANGED <<namingVars, libraryVars, batchVars, editorVars, utilVars, cacheVars>>

\* MediaRecorder.stop(): a recorder that records queues its stop event
StopsAfterStop(r) ==
    IF r.mediaRecorderRef.made /\ r.mediaRecorderRef.state = "recording"
    THEN Append(r.stops, [recordings |-> r.mediaRecorderRef.recordings])
    ELSE r.stops

\* deactivateMic: the tracks of the stream of the ref are stopped, the
\* recorder of the ref is stopped if recording, the refs are cleared
deactivateMic ==
    /\ recorder' = [recorder EXCEPT
          !.streams = [n \in DOMAIN @ |->
                          IF n = recorder.mediaStreamRef THEN "stopped" ELSE @[n]],
          !.mediaStreamRef = NoStream,
          !.stops = IF recorder.recording THEN StopsAfterStop(recorder) ELSE @,
          !.mediaRecorderRef = NoRecorder,
          !.micActive = FALSE,
          !.recording = FALSE]
    /\ UNCHANGED <<namingVars, libraryVars, batchVars, editorVars, utilVars, cacheVars>>

startRecording ==
    /\ recorder.micActive /\ ~recorder.recording /\ recorder.mediaRecorderRef.made
    /\ recorder' = [recorder EXCEPT
          !.mediaRecorderRef.state = "recording",
          !.recording = TRUE]
    /\ UNCHANGED <<namingVars, libraryVars, batchVars, editorVars, utilVars, cacheVars>>

stopRecording ==
    /\ recorder.recording /\ recorder.mediaRecorderRef.made
    /\ recorder' = [recorder EXCEPT
          !.stops = StopsAfterStop(recorder),
          !.mediaRecorderRef.state = "inactive",
          !.recording = FALSE]
    /\ UNCHANGED <<namingVars, libraryVars, batchVars, editorVars, utilVars, cacheVars>>

\* mediaRecorder.onstop: the recording is named and appended
onstop ==
    /\ recorder.stops # << >>
    /\ LET closure == Head(recorder.stops)
           newRecording == [id |-> recorder.nextId,
                            name |-> << "Grabación ",
                                        RecordingNumber(closure.recordings) >>]
       IN  recorder' = [recorder EXCEPT
              !.stops = Tail(@),
              !.recordings = Append(@, newRecording),
              !.nextId = @ + 1]
    /\ UNCHANGED <<namingVars, libraryVars, batchVars, editorVars, utilVars, cacheVars>>

\* deleteRecording: the recording of the id is filtered out
deleteRecording(id) ==
    /\ \E n \in DOMAIN recorder.recordings : recorder.recordings[n].id = id
    /\ recorder' = [recorder EXCEPT
          !.recordings = SelectSeq(@, LAMBDA r : r.id # id)]
    /\ UNCHANGED <<namingVars, libraryVars, batchVars, editorVars, utilVars, cacheVars>>

\* the recorder, its operations in any interleaving
MicNext ==
    \/ Len(recorder.streams) + Len(recorder.activations) < MaxStreams /\ activateMic
    \/ \E i \in 1..MaxStreams : activateMicResolved(i)
    \/ \E i \in 1..MaxStreams : activateMicRejected(i)
    \/ deactivateMic
    \/ recorder.nextId + Len(recorder.stops) <= MaxRecordings /\ startRecording
    \/ stopRecording
    \/ onstop
    \/ \E id \in 1..MaxRecordings : deleteRecording(id)

----------------------------------------------------------------------------
(* Specifications: each tool runs on its own; the state of the others stays *)
(* as constructed                                                           *)

\* the naming page as constructed
EditorIdle == hook = "local" /\ musicFiles = << >> /\ update = NoUpdate

\* every tool as constructed, over a library of files
Init ==
    /\ NamingInit /\ BatchInit /\ EditorInit
    /\ fs \in InitialFileSystems \cup LargerFileSystems /\ LibraryStart
    /\ normalizing \in {NotNormalizing} \cup
          { [phase |-> "given", input |-> str] : str \in NormalizeInputs }
    /\ detecting = NotDetecting \/ DetectInit
    /\ libDir \in Directories /\ CacheStart
    /\ RecorderInit

\* a library on disk, nothing selected yet, the other tools idle
InitLibrary ==
    /\ NamingInit /\ LibraryInit /\ BatchInit /\ EditorIdle /\ UtilIdle /\ CacheIdle
    /\ RecorderInit

\* the same, over the larger libraries
InitLargerLibrary ==
    /\ NamingInit /\ BatchInit /\ EditorIdle /\ UtilIdle /\ CacheIdle
    /\ fs \in LargerFileSystems /\ LibraryStart
    /\ RecorderInit

\* every tool as constructed, the organizer without a directory
InitIdle ==
    /\ NamingInit /\ fs = EmptyFs /\ LibraryStart /\ BatchInit /\ EditorIdle /\ UtilIdle
    /\ CacheIdle
    /\ RecorderInit

\* the naming page in either version, the other tools idle
InitEditor ==
    /\ NamingInit /\ fs = EmptyFs /\ LibraryStart /\ BatchInit /\ EditorInit /\ UtilIdle
    /\ CacheIdle
    /\ RecorderInit

\* normalizeString and createNormalizedKey given an input, the tools idle
InitNormalize ==
    /\ NamingInit /\ fs = EmptyFs /\ LibraryStart /\ BatchInit /\ EditorIdle
    /\ NormalizeInit /\ detecting = NotDetecting /\ CacheIdle
    /\ RecorderInit

\* findDuplicates given its files, the tools idle
InitDetect ==
    /\ NamingInit /\ fs = EmptyFs /\ LibraryStart /\ BatchInit /\ EditorIdle
    /\ normalizing = NotNormalizing /\ DetectInit /\ CacheIdle
    /\ RecorderInit

\* the backend hook as mounted over a directory of the server, the tools idle
InitScan ==
    /\ NamingInit /\ fs = EmptyFs /\ LibraryStart /\ BatchInit /\ EditorIdle /\ UtilIdle
    /\ libDir \in Directories /\ CacheStart
    /\ RecorderInit

\* the backend hook after a scan of the directory has completed, the files
\* as they were before any edit
InitScanned ==
    /\ NamingInit /\ fs = EmptyFs /\ LibraryStart /\ BatchInit /\ EditorIdle /\ UtilIdle
    /\ \E n \in 0..MaxDirFiles : libDir = [i \in 1..n |-> ApiFile(i, "v0", "v0")]
    /\ libFiles = [i \in DOMAIN libDir |-> convertApiFileOf(libDir[i])]
    /\ libScanning = FALSE
    /\ libProgress = [current |-> Len(libDir), total |-> Len(libDir)]
    /\ libError = FALSE
    /\ libCache = [present |-> TRUE, files |-> libFiles, timestamp |-> TRUE]
    /\ libCalls = [c \in CallSlots |-> NoRequest]
    /\ RecorderInit

Next ==
    \/ NamingNext \/ LibraryNext \/ CleanupNext \/ BatchNext \/ EditorNext
    \/ NormalizeNext \/ DetectNext \/ ScanNext \/ OverlapNext \/ UpdatesNext
    \/ MirrorNext \/ MicNext \/ CanonicalNext

\* the naming standard
SpecNaming == InitIdle /\ [][NamingNext]_vars

\* the duplicate cleaner
SpecLibrary == InitLibrary /\ [][LibraryNext]_vars
\* the duplicate cleaner on libraries with several files of one key on a side
SpecLargerLibrary == InitLargerLibrary /\ [][LibraryNext]_vars

\* the clean-up loop of the page
SpecCleanup == InitLibrary /\ [][CleanupNext]_vars

\* the batch operations
SpecBatch == InitIdle /\ [][BatchNext]_vars

\* the naming page
SpecEditor == InitEditor /\ [][EditorNext]_vars

\* the string normalizer
SpecNormalize == InitNormalize /\ [][NormalizeNext]_vars

\* the duplicate detection
SpecDetect == InitDetect /\ [][DetectNext]_vars

\* the server answers a request
ServerAnswers == (\E cacheOk \in BOOLEAN : scanLibraryResponse(1, cacheOk)) \/ scanLibraryRejected(1)

\* one scan of the backend hook at a time; every request is answered
SpecScan == InitScan /\ [][ScanNext]_vars /\ WF_vars(ServerAnswers)

\* scans of the backend hook that may overlap
SpecOverlap == InitScan /\ [][OverlapNext]_vars

\* edits of the files of a scanned library
SpecUpdates == InitScanned /\ [][UpdatesNext]_vars

\* the library and its cache over scans, clearing and reloads
SpecMirror == InitScan /\ [][MirrorNext]_vars

\* the recorder
SpecMic == InitIdle /\ [][MicNext]_vars

\* canonical names of files without tags
SpecCanonical == InitIdle /\ [][CanonicalNext]_vars

Spec == Init /\ [][Next]_vars

----------------------------------------------------------------------------
(* Properties of the duplicate cleaner, checked under SpecLibrary *)

PathsOf(files) == { files[i].path : i \in DOMAIN files }
TrashPathOf(file) == <<TrashDir, file.name>>

\* C1: moveDuplicatesToTrash reads and copies only root files of selected
\* groups: the sourceFile of every recorded operation is a root file
\* (isInRoot) of a selected group, and no file-system call of the run reads or
\* writes a file that a group lists in organizedFiles.
C1_OnlyRootFilesTouched ==
    lastMove.called =>
        LET groups == Range(lastMove.duplicateGroups)
        IN  /\ \A op \in Range(lastMove.returned) :
                 /\ op.sourceFile.isInRoot
                 /\ \E g \in groups :
                      /\ g.id \in Range(lastMove.groupIds)
                      /\ op.sourceFile \in Range(g.rootFiles)
            /\ \A call \in lastMove.calls : \A g \in groups :
                 call.path \notin PathsOf(g.organizedFiles)

\* C2: when a scan is followed by findDuplicates, a scanned file whose tags
\* lack the artist or lack the title is in no duplicate group.
LacksArtistOrTitle(tags) == ~Truthy(tags.artist) \/ ~Truthy(tags.title)

ScanCompletes == scanPending /\ ~scanPending' /\ scanProgress'.status = "completed"

C2_UntaggedNeverGrouped ==
    [][ ScanCompletes =>
          \A i \in DOMAIN audioFiles' :
             LacksArtistOrTitle(fs[audioFiles'[i].path]) =>
                \A g \in Range(duplicateGroups') :
                   audioFiles'[i].path \notin PathsOf(g.files) ]_vars

\* C2, as the code has it: a file without artist and title tags is keyed by
\* the artist and title extractFromFilename takes from its file name; a file
\* without one of the two tags by "Unknown Artist", or by the name without
\* extension, in its place. A scan puts such a file in a group exactly when a
\* file on the other side (root against sub-folders) has the same key.
KeyFromTagsOrName(name, tags) ==
    LET stem   == RemoveExtension(name)
        named  == extractFromFilename(name)
        artist == IF Truthy(tags.artist) THEN tags.artist
                  ELSE IF Truthy(tags.title) THEN UnknownArtist ELSE named.artist
        title  == IF Truthy(tags.title) THEN tags.title
                  ELSE IF Truthy(tags.artist) THEN stem ELSE named.title
    IN  normalizeString(artist) \o << ":", ":" >> \o normalizeString(title)

C2_UntaggedKeyedByFileName ==
    [][ ScanCompletes =>
          \A i \in DOMAIN audioFiles' :
             LET file == audioFiles'[i]
                 key  == KeyFromTagsOrName(file.name, fs[file.path])
             IN  LacksArtistOrTitle(fs[file.path]) =>
                    ((\E g \in Range(duplicateGroups') : file.path \in PathsOf(g.files))
                       <=> \E j \in DOMAIN audioFiles' :
                             /\ audioFiles'[j].isInRoot # file.isInRoot
                             /\ KeyFromTagsOrName(audioFiles'[j].name,
                                                  fs[audioFiles'[j].path]) = key) ]_vars

\* a completed scan grouped a root file whose tags lack the artist or the title
C2_Witness ==
    /\ scanProgress.status = "completed"
    /\ \E g \in Range(duplicateGroups) : \E f \in Range(g.rootFiles) :
          LacksArtistOrTitle(fs[f.path])

\* C3: two files whose artist or title normalizes to the empty string are
\* never in the same duplicate group.
NormalizesToEmpty(file) ==
    \/ normalizeString(file.metadata.artist) = << >>
    \/ normalizeString(file.metadata.title) = << >>

C3_EmptyKeysNeverMatched ==
    \A g \in Range(duplicateGroups) : \A f1 \in Range(g.files), f2 \in Range(g.files) :
        (f1.path # f2.path) => ~(NormalizesToEmpty(f1) /\ NormalizesToEmpty(f2))

\* C4: whenever an operation is recorded with success = true, the file is in
\* the Trash folder under its own name and is no longer in the root directory.
C4_MovedFilesLeaveRoot ==
    lastMove.called =>
        \A op \in Range(lastMove.returned) :
            op.success => /\ fs[TrashPathOf(op.sourceFile)] # NoFile
                          /\ fs[op.sourceFile.path] = NoFile

\* C5: a file that the Trash folder already holds under the name of a root
\* file keeps its content when that root file is moved: the moved file goes
\* under another name or the move is recorded as a failure.
C5_TrashFileNotOverwritten ==
    lastMove.called =>
        \A op \in Range(lastMove.returned) :
            LET trashPath == TrashPathOf(op.sourceFile)
            IN  lastMove.fsBefore[trashPath] # NoFile =>
                    fs[trashPath] = lastMove.fsBefore[trashPath]

\* C6: every group findDuplicates returns has at least one root file and at
\* least one organized file, and a key whose files are all in the root, or all
\* in sub-folders, has no group.
KeyOf(file) == createNormalizedKey(file.metadata)

C6_GroupsHaveBothSides ==
    /\ \A g \in Range(duplicateGroups) :
         /\ \E f \in Range(g.rootFiles) : f.path[1] = RootDir
         /\ \E f \in Range(g.organizedFiles) : f.path[1] # RootDir
    /\ \A f \in Range(audioFiles) :
         LET sameKey == { h \in Range(audioFiles) : KeyOf(h) = KeyOf(f) }
         IN  (\/ \A h \in sameKey : h.path[1] = RootDir
              \/ \A h \in sameKey : h.path[1] # RootDir)
             => \A g \in Range(duplicateGroups) : g.normalizedKey # KeyOf(f)

\* a completed scan listed two root files of one key, and no group has that key
C6_Witness ==
    /\ scanProgress.status = "completed"
    /\ \E f \in Range(audioFiles), h \in Range(audioFiles) :
         /\ f.path # h.path
         /\ f.path[1] = RootDir /\ h.path[1] = RootDir
         /\ KeyOf(f) = KeyOf(h)
         /\ \A g \in Range(duplicateGroups) : g.normalizedKey # KeyOf(f)

----------------------------------------------------------------------------
(* Properties of the naming standard, checked under SpecNaming *)

HasInvalidChar(name) == \E i \in DOMAIN name : name[i] \in InvalidChars
BothPresent(metadata) == Truthy(metadata.artist) /\ Truthy(metadata.title)

\* C7: in any sequence of calls, a call of analyzeFileName reports
\* invalid_chars exactly when its own file name holds one of the characters
\* / \ ? % * : | " < >, and its issues are those of a first call on the same
\* file name and metadata.
C7_InvalidCharsOfOwnName ==
    analysis.called =>
        /\ ("invalid_chars" \in Range(analysis.issues)) <=> HasInvalidChar(analysis.fileName)
        /\ analysis.issues = analyzeFileName(analysis.fileName, analysis.metadata, 0).issues

\* C9: with artist and title present, analyzeFileName returns no issue when
\* the file name is the canonical name, and exactly the one issue no_standard
\* when the file name differs from it and holds no invalid character.
C9_CanonicalNameHasNoIssue ==
    (analysis.called /\ BothPresent(analysis.metadata)) =>
        /\ (analysis.fileName = analysis.expected.name) => analysis.issues = << >>
        /\ (analysis.fileName # analysis.expected.name /\ ~HasInvalidChar(analysis.fileName))
              => analysis.issues = << "no_standard" >>

\* a call whose file name has the shape of the standard without being the
\* canonical name of its tags, made while the regex held a stale lastIndex
C9_Witness ==
    /\ analysis.called
    /\ analysis.lastIndexBefore > 0
    /\ BothPresent(analysis.metadata)
    /\ MatchStandardPattern(analysis.fileName).matched
    /\ ~HasInvalidChar(analysis.fileName)
    /\ analysis.fileName # analysis.expected.name
    /\ analysis.issues = << "no_standard" >>

\* C10: every canonical name is in Title Case: in the artist part and in the
\* title part, each space-separated word that begins with a letter begins
\* upper-case and continues lower-case; the name holds no invalid character,
\* and a part holds no two white-space characters in a row and neither begins
\* nor ends with white space.
IsTitleCaseWord(word) ==
    (word # << >> /\ IsLetter(word[1])) =>
        /\ IsUpper(word[1])
        /\ \A i \in 2..Len(word) : IsLetter(word[i]) => IsLower(word[i])

IsCleanPart(part) ==
    /\ \A word \in Range(split(part, << " " >>)) : IsTitleCaseWord(word)
    /\ ~HasInvalidChar(part)
    /\ \A i \in 1..(Len(part) - 1) : ~(part[i] \in WhiteSpace /\ part[i + 1] \in WhiteSpace)
    /\ part # << >> => (part[1] \notin WhiteSpace /\ part[Len(part)] \notin WhiteSpace)

C10_CanonicalNameIsTitleCase ==
    (analysis.called /\ analysis.expected.name # NULL) =>
        /\ IsCleanPart(analysis.expected.artist)
        /\ IsCleanPart(analysis.expected.title)
        /\ ~HasInvalidChar(analysis.expected.name)

----------------------------------------------------------------------------
(* Properties of the batch operations, checked under SpecBatch *)

\* C8: every batch operation the panel starts requests a backup; the snapshot
\* of every input file, as the files were before the run, is stored before any
\* file is changed; and when the snapshot cannot be stored no file is changed.
C8_BackupBeforeMutation ==
    batch.phase # "idle" =>
        /\ batch.request.create_backup
        /\ batch.phase \in {"pending", "aborted"} => serverFiles = batch.before
        /\ batch.phase = "applying" =>
              /\ batch.backup_id \in DOMAIN backups
              /\ backups[batch.backup_id] = BackupSnapshot(batch.before, batch.request.files)

\* a run that has changed a file, the snapshot of the files as they were stored
C8_Witness ==
    /\ batch.phase = "applying"
    /\ serverFiles # batch.before
    /\ batch.backup_id \in DOMAIN backups
    /\ backups[batch.backup_id] = BackupSnapshot(batch.before, batch.request.files)

----------------------------------------------------------------------------
(* Properties of the suggested name, checked under SpecNaming *)

SpaceHyphenSpace == << " ", "-", " " >>

\* the positions at which " - " begins in s
SeparatorPositions(s) ==
    { i \in 1..(Len(s) - 2) : SubSeq(s, i, i + 2) = SpaceHyphenSpace }

\* C11: when the tags lack the artist or the title, getSuggestedName takes the
\* pair from the file name split at its first " - ": the artist is the text
\* before it, the title the text after it up to ".mp3"; a file name without
\* " - " (a hyphen without the spaces is no separator) has no suggestion.
C11_SplitAtSpaceHyphenSpace ==
    (analysis.called /\ ~BothPresent(analysis.metadata)) =>
        LET name == analysis.fileName
            stem == SubSeq(name, 1, Len(name) - Len(DotMp3))
            cuts == SeparatorPositions(stem)
        IN  IF cuts = {}
            THEN analysis.suggestedName = NULL
            ELSE LET cut == Min(cuts)
                     left == SubSeq(stem, 1, cut - 1)
                     right == SubSeq(stem, cut + 3, Len(stem))
                 IN  (left # << >> /\ right # << >>) =>
                        analysis.suggestedName =
                            generateStandardName([artist |-> trim(left), title |-> trim(right)])

----------------------------------------------------------------------------
(* Properties of the naming page, checked under SpecEditor *)

\* C12: after a successful updateFileMetadata the file's issues are
\* analyzeFileName(fileName, new metadata) and its suggestedName is
\* getSuggestedName(fileName, new metadata).
C12_IssuesRecomputed ==
    (update.status = "done" /\ update.success) =>
        \A i \in DOMAIN musicFiles :
            LET file == musicFiles[i]
                analyzed == analyzeFileName(file.fileName, file.metadata,
                                            update.lastIndexBefore)
            IN  file.id = update.fileId =>
                  /\ file.issues = analyzed.issues
                  /\ file.suggestedName =
                        getSuggestedName(file.fileName, file.metadata,
                                         analyzed.lastIndex).name

----------------------------------------------------------------------------
(* Properties of the string normalizer, checked under SpecNormalize *)

\* C13: normalizeString is idempotent: normalizeString(normalizeString(s)) is
\* normalizeString(s) for every string s.
C13_NormalizeIdempotent ==
    normalizing.phase = "twice" =>
        /\ ~normalizing.again.threw
        /\ normalizing.again.value = normalizing.result.value

\* the second call was made on a result that differs from the input
C13_Witness ==
    /\ normalizing.phase = "twice"
    /\ normalizing.result.value # << >>
    /\ normalizing.result.value # normalizing.input

\* C14: two strings that differ only in the case of a letter, in a combining
\* diacritical mark on an ASCII letter, or in a character that is no ASCII
\* letter or digit, normalize to the same string.
C14_NormalizeInsensitive ==
    normalizing.phase = "variant" =>
        /\ ~normalizing.variantResult.threw
        /\ normalizing.variantResult.value = normalizing.result.value

\* both strings were normalized, to a string that is not empty
C14_Witness ==
    /\ normalizing.phase = "variant"
    /\ normalizing.variant # normalizing.input
    /\ normalizing.result.value # << >>

----------------------------------------------------------------------------
(* The issues of a file, checked under SpecNaming *)

\* the order analyzeFileName makes its checks in
IssueOrder ==
    << "no_artist", "no_title", "no_standard", "invalid_chars", "missing_metadata" >>

IssueRank(type) == CHOOSE i \in DOMAIN IssueOrder : IssueOrder[i] = type

----------------------------------------------------------------------------
(* The records of moveDuplicatesToTrash, checked under SpecLargerLibrary *)

\* the groups of the scan that the call selected
SelectedGroups ==
    { group \in Range(lastMove.duplicateGroups) : group.id \in Range(lastMove.groupIds) }

RecordsOf(rootFile) ==
    { k \in DOMAIN lastMove.returned : lastMove.returned[k].sourceFile = rootFile }

\* C17: a failure on one file does not abort the remaining moves: every root
\* file of every selected group that exists yields exactly one operation
\* record, with success = true or with success = false and the error message;
\* the records of the files after a failed one are still produced.
C17_FailureDoesNotAbort ==
    lastMove.called =>
        /\ \A group \in SelectedGroups : \A i \in DOMAIN group.rootFiles :
              Cardinality(RecordsOf(group.rootFiles[i])) = 1
        /\ \A k \in DOMAIN lastMove.returned :
              LET record == lastMove.returned[k]
              IN  /\ \E group \in SelectedGroups :
                        record.sourceFile \in Range(group.rootFiles)
                  /\ record.success \/ record.error # ""
                  /\ record.success <=>
                        (lastMove.fsBefore[record.sourceFile.path] # NoFile
                            /\ [op |-> "write", path |-> <<TrashDir, record.sourceFile.name>>]
                                  \in lastMove.calls)

\* a failed record is followed by the record of a file that was moved
C17_Witness ==
    /\ lastMove.called
    /\ \E i, j \in DOMAIN lastMove.returned :
          /\ i < j
          /\ ~lastMove.returned[i].success
          /\ lastMove.returned[j].success

\* C18: each successful move is recorded with all the organized files the
\* root file was matched against: for a group with several organized files
\* the record of a moved root file names every one of them.
C18_RecordNamesEveryMatch ==
    lastMove.called =>
        \A k \in DOMAIN lastMove.returned :
            LET record == lastMove.returned[k]
            IN  record.success =>
                  \A group \in SelectedGroups :
                      record.sourceFile \in Range(group.rootFiles) =>
                          Range(group.organizedFiles) \subseteq {record.duplicateOf}

----------------------------------------------------------------------------
(* Restore, checked under SpecBatch *)

\* C19: restoring a backup is idempotent: restoring the same backupId twice
\* leaves every file with the same name and metadata as restoring it once.
C19_RestoreIdempotent ==
    (restore.called /\ restore.count = 2) => serverFiles = restore.first

\* the backup was restored twice, and the first restore changed a file back
C19_Witness ==
    /\ restore.called
    /\ restore.count = 2
    /\ restore.found
    /\ restore.first # restore.before

----------------------------------------------------------------------------
(* The order of the groups, checked under SpecDetect *)

\* the position of the first input file that carries the key
FirstWithKey(files, normalizedKey) ==
    Min({ k \in DOMAIN files :
            /\ ~IsNullMetadata(files[k].metadata)
            /\ createNormalizedKey(files[k].metadata) = normalizedKey })

\* C20: findDuplicates emits the groups in first-seen key order: group A
\* precedes group B in the result iff the first input file carrying A's key
\* precedes the first input file carrying B's key.
C20_GroupsInFirstSeenOrder ==
    detecting.phase = "done" =>
        \A i, j \in DOMAIN detecting.result :
            i < j <=>
                FirstWithKey(detecting.files, detecting.result[i].normalizedKey)
                    < FirstWithKey(detecting.files, detecting.result[j].normalizedKey)

\* two groups came out, and the group emitted first was completed last
C20_Witness ==
    /\ detecting.phase = "done"
    /\ Len(detecting.result) = 2
    /\ detecting.result[1].files[Len(detecting.result[1].files)].id
          > detecting.result[2].files[Len(detecting.result[2].files)].id

----------------------------------------------------------------------------
(* The groups and their keys, checked under SpecDetect *)

\* the input files that have metadata
UsableFiles == { f \in Range(detecting.files) : ~IsNullMetadata(f.metadata) }

\* C21: findDuplicates groups by key equality only: every file belongs to at
\* most one group, all files of a group carry the group's normalizedKey, and
\* two files carry the same key iff their normalized artists are equal and
\* their normalized titles are equal.
C21_GroupedByKeyOnly ==
    detecting.phase = "done" =>
        /\ \A f \in Range(detecting.files) :
              Cardinality({ g \in DOMAIN detecting.result :
                              f \in Range(detecting.result[g].files) }) <= 1
        /\ \A g \in DOMAIN detecting.result :
              \A f \in Range(detecting.result[g].files) :
                  /\ f \in UsableFiles
                  /\ createNormalizedKey(f.metadata) = detecting.result[g].normalizedKey
        /\ \A f1, f2 \in UsableFiles :
              createNormalizedKey(f1.metadata) = createNormalizedKey(f2.metadata)
                  <=> /\ normalizeString(f1.metadata.artist)
                            = normalizeString(f2.metadata.artist)
                      /\ normalizeString(f1.metadata.title)
                            = normalizeString(f2.metadata.title)

\* a group came out while a file of another pair with the same letters, the
\* artist ending elsewhere, stayed out of it
C21_Witness ==
    /\ detecting.phase = "done"
    /\ \E g \in DOMAIN detecting.result :
          /\ detecting.result[g].normalizedKey = << "a", ":", ":", "b" >>
          /\ \E f \in UsableFiles :
                /\ f.metadata.artist = << "a", "b" >>
                /\ f \notin Range(detecting.result[g].files)

----------------------------------------------------------------------------
(* The clean-up loop, checked under SpecCleanup *)

\* C22: the clean-up loop converges: from any library, repeating the scan, the
\* move of every reported group and the rescan that follows reaches, after
\* finitely many rounds without I/O failure, a scan that reports no duplicate
\* group. The loop is deterministic, a round being a function of the files on
\* disk; so no round may leave the disk as it found it while its rescan still
\* reports a group: every later round would be that round again.
C22_CleanupConverges ==
    (lastMove.called /\ scanProgress.status = "completed" /\ duplicateGroups # << >>)
        => fs # lastMove.fsBefore

----------------------------------------------------------------------------
(* Properties of the backend hook *)

\* the listing of the directory as the hook holds it
ListingOf(dir) == [i \in DOMAIN dir |-> convertApiFileOf(dir[i])]

\* the scan in flight ends in this step without an error
ScanEndsWithoutError ==
    libCalls[1].kind = "scan" /\ libCalls'[1] = NoRequest /\ ~libError'

ScanInFlight == \E c \in CallSlots : libCalls[c].kind = "scan"

\* C24: the scanning flag is true whenever at least one scanLibrary call is in
\* flight, also when scans overlap
C24_ScanningWhileInFlight == ScanInFlight => libScanning

NoCallInFlight == \A c \in CallSlots : libCalls[c] = NoRequest

\* C23: no update is lost: once the updateFileMetadata and renameFile calls,
\* each on a file of its own, have been answered, files and the cache hold
\* every change the server made, whatever the order of the responses
C23_NoUpdateLost ==
    NoCallInFlight => (libFiles = ListingOf(libDir) /\ libCache.files = ListingOf(libDir))

\* C30: the cache mirrors the library: whenever no scan, update or rename is
\* in flight and the writes to localStorage succeed, the cached list is absent
\* or equal to files, also after a scan that failed and after clearLibrary
C30_CacheMirrorsLibrary ==
    NoCallInFlight => (~libCache.present \/ libCache.files = libFiles)

----------------------------------------------------------------------------
(* Properties of the scan status of the duplicate cleaner *)

\* the steps of the status the scan may take; startScan passes from scanning
\* through analyzing to completed without an await between the two, so that
\* passage is one step here
StatusStep(from, to) ==
    \/ from = "idle" /\ to = "scanning"
    \/ from = "scanning" /\ to \in {"completed", "error"}
    \/ to = "idle"

\* C26: the scan status only moves idle -> scanning -> analyzing -> completed,
\* or to error from scanning or analyzing, and back to idle by reset; in every
\* state with status completed, filesScanned is the number of audioFiles and
\* duplicatesFound the number of duplicateGroups
C26_StatusOrder ==
    /\ [][scanProgress'.status # scanProgress.status =>
            StatusStep(scanProgress.status, scanProgress'.status)]_vars
    /\ [](scanProgress.status = "completed" =>
            /\ scanProgress.filesScanned = Len(audioFiles)
            /\ scanProgress.duplicatesFound = Len(duplicateGroups))

----------------------------------------------------------------------------
(* Properties of the recorder *)

\* C27: the recorder holds at most one open microphone stream: once
\* deactivateMic has run and no activation is pending, every stream opened by
\* activateMic has been stopped; and recording implies micActive
C27_OneOpenStream ==
    /\ recorder.recording => recorder.micActive
    /\ (~recorder.micActive /\ recorder.activations = << >>) =>
          \A n \in DOMAIN recorder.streams : recorder.streams[n] = "stopped"

\* C28: saved recordings are numbered by position: the recording saved when
\* the list holds k recordings is named "Grabación k+1"
C28_NumberedByPosition ==
    [][Len(recorder'.recordings) = Len(recorder.recordings) + 1 =>
          recorder'.recordings[Len(recorder'.recordings)].name =
              << "Grabación ", Len(recorder.recordings) + 1 >>]_vars

----------------------------------------------------------------------------
(* Properties of canonical names, checked under SpecCanonical *)

\* C29: a canonical name survives the filename fallback: a file named
\* generateStandardName({artist, title}) whose tags are missing is suggested
\* that same file name by getSuggestedName
C29_CanonicalNameSurvives ==
    (analysis.called /\ analysis.metadata.artist = NULL /\ analysis.metadata.title = NULL)
        => analysis.suggestedName = analysis.fileName

====
